---- MODULE Spec2Model ----
(***************************************************************************)
(* SQL Canvas: the node-reference pipeline.                                *)
(*                                                                         *)
(* server/index.js       POST /api/query/local                             *)
(*                       POST /api/query/local/with-references             *)
(* server/database.js    runQuery, executeSQL on the one shared connection *)
(* src/utils/database.ts executeSQL, executeSQLWithReferences (client)     *)
(* src/App.tsx           getNodeByLabel                                    *)
(*                                                                         *)
(* Text is a sequence of one-character strings.  A relation name is text.  *)
(* A JSON row is a sequence of <<key, value>> pairs in key order, a value  *)
(* a record [t, n, s] tagged "num", "str", "bool", "null".                 *)
(***************************************************************************)
EXTENDS Integers, Sequences, FiniteSets, TLC

(***************************************************************************)
(* Bounds                                                                  *)
(***************************************************************************)
NumReqs == 2

\* the longest query text of the enumerated texts
MaxLen == 7

\* the longest string cell of the enumerated result sets
MaxStr == 3

\* the most rows of the enumerated result sets
MaxRows == 2

\* the nodeId counter stops here: no node is added once it is reached
MaxNodeId == 5

Reqs == 1..NumReqs

(***************************************************************************)
(* Text helpers (JavaScript String methods)                                *)
(***************************************************************************)
Lower == {"a", "b", "c", "d", "e", "f", "g", "h", "i", "j", "k", "l", "m",
          "n", "o", "p", "q", "r", "s", "t", "u", "v", "w", "x", "y", "z"}

Upper == {"A", "B", "C", "D", "E", "F", "G", "H", "I", "J", "K", "L", "M",
          "N", "O", "P", "Q", "R", "S", "T", "U", "V", "W", "X", "Y", "Z"}

Digit == {"0", "1", "2", "3", "4", "5", "6", "7", "8", "9"}

\* the character class [a-zA-Z0-9_]
WordChars == Lower \cup Upper \cup Digit \cup {"_"}

WhiteSpace == {" "}

Slice(t, a, b) == [k \in 1..(b - a + 1) |-> t[a + k - 1]]

\* number of leading white-space characters of t
RECURSIVE LeadWs(_)
LeadWs(t) ==
    IF t = <<>> \/ Head(t) \notin WhiteSpace THEN 0 ELSE 1 + LeadWs(Tail(t))

\* number of trailing white-space characters of t
RECURSIVE TrailWs(_)
TrailWs(t) ==
    IF t = <<>> \/ t[Len(t)] \notin WhiteSpace THEN 0
    ELSE 1 + TrailWs(Slice(t, 1, Len(t) - 1))

\* String.prototype.trim
Trim(t) ==
    IF LeadWs(t) = Len(t) THEN <<>>
    ELSE Slice(t, LeadWs(t) + 1, Len(t) - TrailWs(t))

\* does pat occur in t at position p
OccursAt(t, pat, p) ==
    /\ p >= 1
    /\ p + Len(pat) - 1 <= Len(t)
    /\ \A k \in 1..Len(pat) : t[p + k - 1] = pat[k]

\* String.prototype.indexOf, 1-based; 0 when pat does not occur
RECURSIVE IndexFrom(_, _, _)
IndexFrom(t, pat, p) ==
    IF p + Len(pat) - 1 > Len(t) THEN 0
    ELSE IF OccursAt(t, pat, p) THEN p
    ELSE IndexFrom(t, pat, p + 1)

IndexOf(t, pat) == IndexFrom(t, pat, 1)

\* String.prototype.replace(pattern: string, replacement: string): the
\* first occurrence only (the replacement here never contains "$")
ReplaceFirst(t, pat, rep) ==
    LET p == IndexOf(t, pat) IN
    IF p = 0 THEN t
    ELSE Slice(t, 1, p - 1) \o rep \o Slice(t, p + Len(pat), Len(t))

(***************************************************************************)
(* Reference scanner: [...sql.matchAll(/\{([^}]+)\}/g)]                    *)
(***************************************************************************)
\* the first position >= p that holds "}", or Len(t) + 1
RECURSIVE NextClose(_, _)
NextClose(t, p) ==
    IF p > Len(t) \/ t[p] = "}" THEN p ELSE NextClose(t, p + 1)

\* a pattern whose capture may be empty: /\{([^}]*)\}/
MatchAtOrEmpty(t, p) ==
    /\ p <= Len(t)
    /\ t[p] = "{"
    /\ NextClose(t, p + 1) <= Len(t)

\* a match starts at p: "{", one or more non-"}" characters, "}"
MatchAt(t, p) ==
    /\ p <= Len(t)
    /\ t[p] = "{"
    /\ NextClose(t, p + 1) > p + 1
    /\ NextClose(t, p + 1) <= Len(t)

\* matches from position p on, left to right, non-overlapping; a match is
\* [raw |-> match[0], cap |-> match[1], at |-> match.index + 1]
RECURSIVE MatchAllFrom(_, _)
MatchAllFrom(t, p) ==
    IF p > Len(t) THEN <<>>
    ELSE IF MatchAt(t, p)
         THEN LET q == NextClose(t, p + 1) IN
              <<[raw |-> Slice(t, p, q), cap |-> Slice(t, p + 1, q - 1),
                 at |-> p]>> \o MatchAllFrom(t, q + 1)
         ELSE MatchAllFrom(t, p + 1)

MatchAll(t) == MatchAllFrom(t, 1)

\* match[1].trim()
NodeLabel(m) == Trim(m.cap)

\* a name that keeps the label as it is
SanitizeNone(l) == l

\* nodeLabel.replace(/[^a-zA-Z0-9_]/g, '_')
Sanitize(l) == [k \in 1..Len(l) |-> IF l[k] \in WordChars THEN l[k] ELSE "_"]

TempPrefix == <<"t", "e", "m", "p", "_">>

\* `temp_${nodeLabel.replace(/[^a-zA-Z0-9_]/g, '_')}`
TempTableName(l) == TempPrefix \o Sanitize(l)

\* a rewrite that stops after the first match
RECURSIVE RewriteFirstOnly(_, _, _)
RewriteFirstOnly(t, ms, k) ==
    IF k > Len(ms) \/ k > 1 THEN t
    ELSE RewriteFirstOnly(ReplaceFirst(t, ms[k].raw, TempTableName(NodeLabel(ms[k]))),
                          ms, k + 1)

\* the rewrite loop: for every match, replace match[0] by the table name
RECURSIVE RewriteFrom(_, _, _)
RewriteFrom(t, ms, k) ==
    IF k > Len(ms) THEN t
    ELSE RewriteFrom(ReplaceFirst(t, ms[k].raw, TempTableName(NodeLabel(ms[k]))),
                     ms, k + 1)

ModifiedSQL(t) == RewriteFrom(t, MatchAll(t), 1)

(***************************************************************************)
(* JSON values, rows and result sets                                       *)
(***************************************************************************)
Num(n) == [t |-> "num", n |-> n, s |-> <<>>]

Str(s) == [t |-> "str", n |-> 0, s |-> s]

Bool(b) == [t |-> "bool", n |-> IF b THEN 1 ELSE 0, s |-> <<>>]

Null == [t |-> "null", n |-> 0, s |-> <<>>]

\* the value of row[col] when the row has no such key
Undefined == [t |-> "undef", n |-> 0, s |-> <<>>]

\* Object.keys(row)
Keys(row) == [k \in 1..Len(row) |-> row[k][1]]

\* row[col]
Get(row, col) ==
    IF \E k \in 1..Len(row) : row[k][1] = col
    THEN row[CHOOSE k \in 1..Len(row) : row[k][1] = col][2]
    ELSE Undefined

\* String(val) for a string or a boolean
StringOf(val) ==
    IF val.t = "str" THEN val.s
    ELSE IF val.t = "bool"
         THEN (IF val.n = 1 THEN <<"t", "r", "u", "e">>
                            ELSE <<"f", "a", "l", "s", "e">>)
         ELSE <<>>

\* a literal whose quotes are left as they are
EscapeQuotesNone(s) == s

\* .replace(/'/g, "''")
RECURSIVE EscapeQuotes(_)
EscapeQuotes(s) ==
    IF s = <<>> THEN <<>>
    ELSE (IF Head(s) = "'" THEN <<"'", "'">> ELSE <<Head(s)>>)
         \o EscapeQuotes(Tail(s))

\* one cell of the VALUES list: NULL, the number itself, or '...'
SqlLiteral(val) ==
    IF val.t \in {"null", "undef"} THEN [k |-> "null", n |-> 0, text |-> <<>>]
    ELSE IF val.t = "num" THEN [k |-> "num", n |-> val.n, text |-> <<>>]
    ELSE [k |-> "quoted", n |-> 0,
          text |-> <<"'">> \o EscapeQuotes(StringOf(val)) \o <<"'">>]

\* every row serialized under its own keys
RowValuesOwnKeys(row, columns) ==
    [c \in 1..Len(row) |-> SqlLiteral(row[c][2])]

\* columns.map(col => ...) for one row
RowValues(row, columns) ==
    [c \in 1..Len(columns) |-> SqlLiteral(Get(row, columns[c]))]

\* referencedData.results.map(row => ...)
ValuesList(results, columns) ==
    [k \in 1..Len(results) |-> RowValues(results[k], columns)]

(***************************************************************************)
(* Engine statements                                                       *)
(***************************************************************************)
\* `CREATE TEMP TABLE ${tempTableName} AS SELECT * FROM (VALUES ...) AS t(...)`
CreateTableSQL(name, results) ==
    [op |-> "create", name |-> name, cols |-> Keys(results[1]),
     rows |-> ValuesList(results, Keys(results[1])), text |-> <<>>]

\* `DROP TABLE ${tempTable}`
DropTableSQL(name) ==
    [op |-> "drop", name |-> name, cols |-> <<>>, rows |-> <<>>, text |-> <<>>]

\* the user's statement
QuerySQL(text) ==
    [op |-> "query", name |-> <<>>, cols |-> <<>>, rows |-> <<>>, text |-> text]

NoStmt == [op |-> "none", name |-> <<>>, cols |-> <<>>, rows |-> <<>>, text |-> <<>>]

(***************************************************************************)
(* Errors and responses                                                    *)
(***************************************************************************)
\* kind "Required"    'SQL query is required'
\*      "EmptyQuery"  'Empty query'
\*      "NoResults"   `Node "${arg}" has no results`
\*      "NotFound"    `Node with label "${arg}" not found`
\*      "Exists", "NoTable", "Syntax", "Binder", "Conversion"
\*                    the engine's message, arg the relation it names
Err(kind, arg) == [kind |-> kind, arg |-> arg]

NoError == Err("null", <<>>)

\* a JSON body {data, error}; data is absent, null or rows
Body(status, dataTag, rows, error) ==
    [status |-> status, data |-> dataTag, rows |-> rows, error |-> error]

NoResponse == Body(0, "absent", <<>>, NoError)

(***************************************************************************)
(* The analytical engine behind conn.all: a catalog of session-scoped      *)
(* relations on the one shared connection, base tables, and the statements *)
(* the pipeline and the sample queries use.  A relation is                 *)
(* [cols, rows, owner]; owner is the request whose CREATE made it.         *)
(***************************************************************************)
\* the engine reads the body of a quoted literal from position p on: a
\* doubled quote is one quote, a single quote ends the literal
RECURSIVE ReadQuoted(_, _)
ReadQuoted(t, p) ==
    IF p > Len(t) THEN [ok |-> FALSE, s |-> <<>>]
    ELSE IF t[p] = "'"
         THEN IF p < Len(t) /\ t[p + 1] = "'"
              THEN LET r == ReadQuoted(t, p + 2) IN
                   [ok |-> r.ok, s |-> <<"'">> \o r.s]
              ELSE [ok |-> p = Len(t), s |-> <<>>]
         ELSE LET r == ReadQuoted(t, p + 1) IN
              [ok |-> r.ok, s |-> <<t[p]>> \o r.s]

LiteralOk(lit) ==
    lit.k = "quoted" =>
        /\ Len(lit.text) >= 2
        /\ lit.text[1] = "'"
        /\ ReadQuoted(lit.text, 2).ok

LiteralValue(lit) ==
    IF lit.k = "null" THEN Null
    ELSE IF lit.k = "num" THEN Num(lit.n)
    ELSE Str(ReadQuoted(lit.text, 2).s)

Relation(cols, rows, owner) == [cols |-> cols, rows |-> rows, owner |-> owner]

UsersName == <<"u", "s", "e", "r", "s">>

\* the sample table of the database file
BaseTables ==
    UsersName :> Relation(<<"id", "city">>,
                          <<<<Num(1), Str(<<"N", "Y">>)>>,
                            <<Num(2), Str(<<"L", "A">>)>>>>, 0)

\* a name resolves to the session's temporary relation before a base table
Visible(cat, name) == name \in DOMAIN cat \/ name \in DOMAIN BaseTables

Lookup(cat, name) == IF name \in DOMAIN cat THEN cat[name] ELSE BaseTables[name]

Without(cat, name) == [n \in DOMAIN cat \ {name} |-> cat[n]]

\* the result of one statement: the engine's error or rows, and the catalog
EngineResult(err, rows, cat) == [err |-> err, rows |-> rows, cat |-> cat]

\* rows of a relation as the JSON rows conn.all hands back
JsonRows(rel) ==
    [k \in 1..Len(rel.rows) |->
        [c \in 1..Len(rel.cols) |-> <<rel.cols[c], rel.rows[k][c]>>]]

ColIndex(cols, col) ==
    IF \E c \in 1..Len(cols) : cols[c] = col
    THEN CHOOSE c \in 1..Len(cols) : cols[c] = col
    ELSE 0

\* CREATE TEMP TABLE name AS SELECT * FROM (VALUES ...) AS t(cols)
ExecCreate(cat, stmt, owner) ==
    IF \E k \in 1..Len(stmt.rows) : \E c \in 1..Len(stmt.rows[k]) :
           ~LiteralOk(stmt.rows[k][c])
    THEN EngineResult(Err("Syntax", stmt.name), <<>>, cat)
    ELSE IF stmt.cols = <<>>
    THEN \* VALUES () AS t() does not parse
         EngineResult(Err("Syntax", stmt.name), <<>>, cat)
    ELSE IF stmt.name \in DOMAIN cat
    THEN EngineResult(Err("Exists", stmt.name), <<>>, cat)
    ELSE EngineResult(NoError, <<>>,
            (stmt.name :> Relation(stmt.cols,
                [k \in 1..Len(stmt.rows) |->
                    [c \in 1..Len(stmt.rows[k]) |-> LiteralValue(stmt.rows[k][c])]],
                owner)) @@ cat)

\* DROP TABLE name
ExecDrop(cat, stmt) ==
    IF stmt.name \in DOMAIN cat
    THEN EngineResult(NoError, <<>>, Without(cat, stmt.name))
    ELSE EngineResult(Err("NoTable", stmt.name), <<>>, cat)

(***************************************************************************)
(* The statements of the sample queries                                    *)
(***************************************************************************)
SelectFrom == <<"S", "E", "L", "E", "C", "T", " ", "*", " ", "F", "R", "O", "M", " ">>

WhereTotal == <<" ", "W", "H", "E", "R", "E", " ", "t", "o", "t", "a", "l", " ", ">", " ", "6", "0">>

SelectAFrom == <<"S", "E", "L", "E", "C", "T", " ", "a", ".", "*", " ", "F", "R", "O", "M", " ">>

AJoin == <<" ", "a", " ", "J", "O", "I", "N", " ">>

OnCity == <<" ", "b", " ", "O", "N", " ", "a", ".", "c", "i", "t", "y", "=", "b", ".", "c", "i", "t", "y">>

CreateTemp == <<"C", "R", "E", "A", "T", "E", " ", "T", "E", "M", "P", " ", "T", "A", "B", "L", "E", " ">>

AsSelect1 == <<" ", "A", "S", " ", "S", "E", "L", "E", "C", "T", " ", "1">>

\* the end of the identifier that starts at p: the first position >= p that
\* holds no character of [a-zA-Z0-9_]
RECURSIVE IdentEnd(_, _)
IdentEnd(t, p) ==
    IF p > Len(t) \/ t[p] \notin WordChars THEN p ELSE IdentEnd(t, p + 1)

Rest(t, p) == Slice(t, p, Len(t))

Parsed(kind, a, b) == [kind |-> kind, a |-> a, b |-> b]

SyntaxError == Parsed("syntax", <<>>, <<>>)

\* the engine's parser, for the statements above; anything else is a
\* syntax error (a brace left in the text is one)
ParseQuery(t) ==
    IF OccursAt(t, SelectFrom, 1)
    THEN LET p == Len(SelectFrom) + 1
             e == IdentEnd(t, p) IN
         IF e = p THEN SyntaxError
         ELSE IF Rest(t, e) = <<>> THEN Parsed("all", Slice(t, p, e - 1), <<>>)
         ELSE IF Rest(t, e) = WhereTotal THEN Parsed("filter", Slice(t, p, e - 1), <<>>)
         ELSE SyntaxError
    ELSE IF OccursAt(t, SelectAFrom, 1)
    THEN LET p == Len(SelectAFrom) + 1
             e == IdentEnd(t, p)
             p2 == e + Len(AJoin)
             e2 == IdentEnd(t, p2) IN
         IF e > p /\ OccursAt(t, AJoin, e) /\ e2 > p2 /\ Rest(t, e2) = OnCity
         THEN Parsed("join", Slice(t, p, e - 1), Slice(t, p2, e2 - 1))
         ELSE SyntaxError
    ELSE IF OccursAt(t, CreateTemp, 1)
    THEN LET p == Len(CreateTemp) + 1
             e == IdentEnd(t, p) IN
         IF e > p /\ Rest(t, e) = AsSelect1
         THEN Parsed("mk", Slice(t, p, e - 1), <<>>)
         ELSE SyntaxError
    ELSE SyntaxError

\* WHERE total > 60 on one cell: a number compares, NULL is not true
TotalOver60(v) == v.t = "num" /\ v.n > 60

\* SELECT * FROM rel WHERE total > 60
FilterTotal(rel) ==
    LET c == ColIndex(rel.cols, "total")
        Keep(row) == TotalOver60(row[c]) IN
    Relation(rel.cols, SelectSeq(rel.rows, Keep), rel.owner)

\* the rows of ra that have a partner in rb with the same city, once per partner
RECURSIVE JoinRows(_, _, _, _)
JoinRows(rowsA, ca, rowsB, cb) ==
    IF rowsA = <<>> THEN <<>>
    ELSE LET a == Head(rowsA)
             Same(b) == a[ca].t \in {"num", "str"} /\ b[cb] = a[ca]
             partners == SelectSeq(rowsB, Same) IN
         [k \in 1..Len(partners) |-> a] \o JoinRows(Tail(rowsA), ca, rowsB, cb)

\* the user's statement on the catalog
ExecQuery(cat, text) ==
    LET q == ParseQuery(text) IN
    IF q.kind = "syntax" THEN EngineResult(Err("Syntax", <<>>), <<>>, cat)
    ELSE IF q.kind = "mk"
    THEN IF q.a \in DOMAIN cat
         THEN EngineResult(Err("Exists", q.a), <<>>, cat)
         ELSE EngineResult(NoError, <<>>,
                  (q.a :> Relation(<<"1">>, <<<<Num(1)>>>>, 0)) @@ cat)
    ELSE IF ~Visible(cat, q.a) THEN EngineResult(Err("NoTable", q.a), <<>>, cat)
    ELSE IF q.kind = "all"
    THEN EngineResult(NoError, JsonRows(Lookup(cat, q.a)), cat)
    ELSE IF q.kind = "filter"
    THEN LET rel == Lookup(cat, q.a)
             c == ColIndex(rel.cols, "total") IN
         IF c = 0 THEN EngineResult(Err("Binder", q.a), <<>>, cat)
         ELSE IF \E k \in 1..Len(rel.rows) : rel.rows[k][c].t = "str"
         THEN EngineResult(Err("Conversion", q.a), <<>>, cat)
         ELSE EngineResult(NoError, JsonRows(FilterTotal(rel)), cat)
    ELSE IF ~Visible(cat, q.b) THEN EngineResult(Err("NoTable", q.b), <<>>, cat)
    ELSE LET ra == Lookup(cat, q.a)
             rb == Lookup(cat, q.b)
             ca == ColIndex(ra.cols, "city")
             cb == ColIndex(rb.cols, "city") IN
         IF ca = 0 THEN EngineResult(Err("Binder", q.a), <<>>, cat)
         ELSE IF cb = 0 THEN EngineResult(Err("Binder", q.b), <<>>, cat)
         ELSE EngineResult(NoError,
                  JsonRows(Relation(ra.cols, JoinRows(ra.rows, ca, rb.rows, cb), 0)),
                  cat)

\* conn.all(sql, callback): one statement, atomically, on the shared session
Engine(cat, stmt, owner) ==
    IF stmt.op = "create" THEN ExecCreate(cat, stmt, owner)
    ELSE IF stmt.op = "drop" THEN ExecDrop(cat, stmt)
    ELSE ExecQuery(cat, stmt.text)

(***************************************************************************)
(* Sample inputs: labels, result sets, reference maps, query texts         *)
(***************************************************************************)
Sales == <<"s", "a", "l", "e", "s">>

Other == <<"o", "t", "h", "e", "r">>

Ghost == <<"g", "h", "o", "s", "t">>

\* the key of a JavaScript object that names its prototype
Proto == <<"_", "_", "p", "r", "o", "t", "o", "_", "_">>

\* two labels that differ in one character outside [a-zA-Z0-9_]
SpaceLabel == <<"a", " ", "b">>

UnderLabel == <<"a", "_", "b">>

NY == Str(<<"N", "Y">>)

LA == Str(<<"L", "A">>)

SF == Str(<<"S", "F">>)

\* [{city:"NY",total:100},{city:"LA",total:50}]
SalesRows ==
    <<<<<<"city", NY>>, <<"total", Num(100)>>>>,
      <<<<"city", LA>>, <<"total", Num(50)>>>>>>

\* [{city:"SF",total:70}]
SalesRowsLater == <<<<<<"city", SF>>, <<"total", Num(70)>>>>>>

\* [{city:"NY",total:100,open:true}]
BoolRows == <<<<<<"city", NY>>, <<"total", Num(100)>>, <<"open", Bool(TRUE)>>>>>>

\* [{city:"NY",total:100},{city:"LA"}]: the later row lacks a key
RaggedRows ==
    <<<<<<"city", NY>>, <<"total", Num(100)>>>>,
      <<<<"city", LA>>>>>>

\* one entry of the references map: {results, label}; results may be null
Referenced(isNull, rows) == [isNull |-> isNull, rows |-> rows]

NoReferences == [l \in {} |-> Referenced(TRUE, <<>>)]

OneRef(l, d) == l :> d

TwoRefs(l1, d1, l2, d2) == (l1 :> d1) @@ (l2 :> d2)

Ref(l) == <<"{">> \o l \o <<"}">>

SpacedRef(l) == <<"{", " ">> \o l \o <<" ", "}">>

QueryUsers == SelectFrom \o UsersName

QueryBad == <<"S", "E", "L", "E", "C">>

QueryMk == CreateTemp \o TempPrefix \o Sales \o AsSelect1

QueryOne == SelectFrom \o Ref(Sales) \o WhereTotal

QueryDup == SelectAFrom \o Ref(Sales) \o AJoin \o Ref(Sales) \o OnCity

QueryWs == SelectAFrom \o Ref(Sales) \o AJoin \o SpacedRef(Sales) \o OnCity

QueryGhost == SelectFrom \o Ref(Ghost)

\* SELECT * FROM {__proto__}
QueryProto == SelectFrom \o Ref(Proto)

QueryTwo == SelectAFrom \o Ref(Sales) \o AJoin \o Ref(Other) \o OnCity

QueryClash == SelectAFrom \o Ref(SpaceLabel) \o AJoin \o Ref(UnderLabel) \o OnCity

\* every text of up to MaxLen characters over braces, blank and a letter
Alphabet == {"{", "}", " ", "a"}

Texts == UNION {[1..n -> Alphabet] : n \in 0..MaxLen}

\* a references map that has rows for every label the text references
AllRefs(text) ==
    LET matches == MatchAll(text) IN
    [l \in {NodeLabel(matches[k]) : k \in 1..Len(matches)} |->
        Referenced(FALSE, SalesRows)]

\* SELECT * FROM {sales}
QueryAllSales == SelectFrom \o Ref(Sales)

\* string cells: every string of up to MaxStr characters over ' and a
StringCells == {Str(s) : s \in UNION {[1..n -> {"'", "a"}] : n \in 0..MaxStr}}

Cells == {Num(7), Num(0), Null, Bool(TRUE), Bool(FALSE)} \cup StringCells

\* result sets of one row with one cell
CellResults == {<<<<<<"a", v>>>>>> : v \in Cells}

\* rows over the keys a and b, in either order, with some or no key missing
ShapeCells == {Num(7), Str(<<"a">>)}

ShapeRows ==
    {<<>>}
    \cup {<<<<k, v>>>> : k \in {"a", "b"}, v \in ShapeCells}
    \cup {<<<<"a", v>>, <<"b", w>>>> : v \in ShapeCells, w \in ShapeCells}
    \cup {<<<<"b", v>>, <<"a", w>>>> : v \in ShapeCells, w \in ShapeCells}

ShapeResults == UNION {[1..n -> ShapeRows] : n \in 1..MaxRows}

ResultSets == CellResults \cup ShapeResults

Input(text, refs) == [sql |-> text, references |-> refs]

\* request bodies sent straight to the with-references endpoint
RefsInputs ==
    {Input(QueryUsers, NoReferences),
     Input(QueryBad, NoReferences),
     Input(QueryMk, NoReferences),
     Input(<<>>, NoReferences),
     Input(QueryOne, NoReferences),
     Input(QueryOne, OneRef(Sales, Referenced(FALSE, SalesRows))),
     Input(QueryOne, OneRef(Sales, Referenced(FALSE, SalesRowsLater))),
     Input(QueryOne, OneRef(Sales, Referenced(FALSE, BoolRows))),
     Input(QueryOne, OneRef(Sales, Referenced(FALSE, RaggedRows))),
     Input(QueryOne, OneRef(Sales, Referenced(TRUE, <<>>))),
     Input(QueryOne, OneRef(Sales, Referenced(FALSE, <<>>))),
     Input(QueryDup, OneRef(Sales, Referenced(FALSE, SalesRows))),
     Input(QueryWs, OneRef(Sales, Referenced(FALSE, SalesRows))),
     Input(QueryTwo, OneRef(Sales, Referenced(FALSE, SalesRows))),
     Input(QueryTwo, TwoRefs(Sales, Referenced(FALSE, SalesRows),
                             Other, Referenced(TRUE, <<>>))),
     Input(QueryTwo, TwoRefs(Sales, Referenced(FALSE, SalesRows),
                             Other, Referenced(FALSE, SalesRowsLater))),
     Input(QueryClash, TwoRefs(SpaceLabel, Referenced(FALSE, SalesRows),
                               UnderLabel, Referenced(FALSE, SalesRowsLater)))}

\* query texts sent to the plain endpoint
PlainInputs == {QueryUsers, QueryBad, QueryMk, <<>>}

\* the label a node is renamed to: no SQL node carries it at first
NewLabels == {Ghost}

\* query texts typed into a node of the canvas
NodeInputs == {QueryUsers, QueryOne, QueryDup, QueryGhost, QueryTwo}

\* a canvas: "sales" has run, "other" has never run, the note is no SQL node
CanvasNode(id, type, label, results) ==
    [id |-> id, type |-> type, label |-> label, results |-> results]

SampleCanvas ==
    <<CanvasNode(1, "sqlNode", Sales, Referenced(FALSE, SalesRows)),
      CanvasNode(2, "sqlNode", Other, Referenced(TRUE, <<>>)),
      CanvasNode(3, "noteNode", Ghost, Referenced(TRUE, <<>>))>>

\* a canvas whose second SQL node has been labelled __proto__ and has run
ProtoCanvas ==
    <<CanvasNode(1, "sqlNode", Sales, Referenced(FALSE, SalesRows)),
      CanvasNode(2, "sqlNode", Proto, Referenced(FALSE, SalesRowsLater)),
      CanvasNode(3, "noteNode", Ghost, Referenced(TRUE, <<>>))>>

\* query texts typed into a node of that canvas
ResolverInputs == {QueryOne, QueryWs, QueryDup, QueryGhost, QueryProto}

(***************************************************************************)
(* State                                                                   *)
(***************************************************************************)
VARIABLES
    catalog,      \* the session's temporary relations: name -> relation
    nodes,        \* the canvas: the `nodes` state of App
    nodesRef,     \* nodesRef.current, what getNodeByLabel reads
    nodeOf,       \* the id of the node whose executeQuery sent the request
    cpc,          \* where executeQuery stands: "none", "waiting", "settled"
    shown,        \* the error executeQuery has set on its node (setError)
    overdue,      \* the request-level timeout ran out during the query
    lastRecorded, \* history: label -> the node and results last recorded
    seen,         \* history: nodesRef.current when executeQuery was called
    pc,           \* where each request's handler stands
    origin,       \* "none", "direct" (a raw HTTP request) or "client"
    endpoint,     \* "plain" or "refs"
    sql,          \* req.body.sql
    references,   \* req.body.references
    idx,          \* the position of `match` in the first loop over matches
    tempTables,   \* the handler's tempTables array
    pending,      \* the statement handed to conn.all and not yet answered
    held,         \* what the handler will answer once cleanup is over
    dropIdx,      \* the position of `tempTable` in the cleanup loop
    resp,         \* the JSON body sent by res.json
    clientErr,    \* the error thrown by the client before any request is sent
    stmts,        \* history: the statements each request issued, with outcome
    before,       \* history: the catalog when the request arrived
    after,        \* history: the catalog when the response was sent
    execCat,      \* history: the catalog the user's statement ran on
    alone,        \* history: no other request was in flight meanwhile
    isExecuting,  \* the isExecuting state of each SQL node
    db,           \* `db` of database.js: 0 for null, else the handle opened
    conn,         \* `conn` of database.js: 0 for null, else the handle it is on
    dbFile,       \* analytics.duckdb exists on disk
    inits,        \* the calls of initDatabase: caller -> where the call stands
    sample,       \* the sample tables that exist in the database
    opened,       \* history: how often new duckdb.Database was called
    connected,    \* history: how often db.connect() was called
    creates,      \* history: how often createTablesAndData was called
    nullUse,      \* history: the requests that called conn.all on a null conn
    answered,     \* history: how many statements conn.all has answered
    nodeId,       \* the nodeId counter of App
    saved         \* the canvas-state.json file the user keeps: the last download

vars == <<catalog, nodes, nodesRef, nodeOf, cpc, shown, overdue, lastRecorded,
          seen, pc, origin, endpoint, sql, references, idx, tempTables,
          pending, held, dropIdx, resp, clientErr, stmts, before, after,
          execCat, alone, isExecuting, db, conn, dbFile, inits, sample,
          opened, connected, creates, nullUse, answered, nodeId, saved>>

\* the counter and the files of the canvas toolbar
boardVars == <<nodeId, saved>>

\* the state of database.js
startVars == <<db, conn, dbFile, inits, sample, opened, connected, creates,
               nullUse>>

\* the callers of initDatabase: 0 is the call at server start, r the call
\* made by executeSQL for request r
Callers == {0} \cup Reqs

SampleTables == <<"users", "orders", "products">>

InitCall(st, dbExists, step) == [st |-> st, dbExists |-> dbExists, step |-> step]

NoInitCall == InitCall("none", FALSE, 0)

EmptyCatalog == [n \in {} |-> Relation(<<>>, <<>>, 0)]

NothingRecorded == [l \in {} |-> [id |-> 0, results |-> Referenced(TRUE, <<>>)]]

Held(err, rows) == [err |-> err, rows |-> rows]

NoHeld == Held(NoError, <<>>)

\* the requests and the canvas before anything has happened
ServerInitWith(canvas) ==
    /\ catalog = EmptyCatalog
    /\ nodes = canvas
    /\ nodesRef = canvas
    /\ nodeOf = [r \in Reqs |-> 0]
    /\ cpc = [r \in Reqs |-> "none"]
    /\ shown = [r \in Reqs |-> NoError]
    /\ overdue = [r \in Reqs |-> FALSE]
    /\ lastRecorded = NothingRecorded
    /\ seen = [r \in Reqs |-> canvas]
    /\ pc = [r \in Reqs |-> "idle"]
    /\ origin = [r \in Reqs |-> "none"]
    /\ endpoint = [r \in Reqs |-> "none"]
    /\ sql = [r \in Reqs |-> <<>>]
    /\ references = [r \in Reqs |-> NoReferences]
    /\ idx = [r \in Reqs |-> 0]
    /\ tempTables = [r \in Reqs |-> <<>>]
    /\ pending = [r \in Reqs |-> NoStmt]
    /\ held = [r \in Reqs |-> NoHeld]
    /\ dropIdx = [r \in Reqs |-> 0]
    /\ resp = [r \in Reqs |-> NoResponse]
    /\ clientErr = [r \in Reqs |-> NoError]
    /\ stmts = [r \in Reqs |-> <<>>]
    /\ before = [r \in Reqs |-> EmptyCatalog]
    /\ after = [r \in Reqs |-> EmptyCatalog]
    /\ execCat = [r \in Reqs |-> EmptyCatalog]
    /\ alone = [r \in Reqs |-> TRUE]
    /\ isExecuting = [id \in 1..MaxNodeId |-> FALSE]
    /\ answered = [r \in Reqs |-> 0]
    /\ nodeId = Len(canvas) + 1
    /\ saved = {}

ServerInit == ServerInitWith(SampleCanvas)

\* database.js once the initDatabase() of the server's start has resolved
Ready ==
    /\ db = 1
    /\ conn = 1
    /\ dbFile = TRUE
    /\ inits = [c \in Callers |->
                   IF c = 0 THEN InitCall("resolved", TRUE, 0) ELSE NoInitCall]
    /\ sample = {SampleTables[k] : k \in 1..Len(SampleTables)}
    /\ opened = 1
    /\ connected = 1
    /\ creates = 0
    /\ nullUse = {}

Init == ServerInit /\ Ready

InFlight(r) == pc[r] \notin {"idle", "done"}

(***************************************************************************)
(* The handler of POST /api/query/local/with-references, from one await to *)
(* the next.  A step yields the handler's new local state.                 *)
(***************************************************************************)
Local(p, k, tt, stmt, h, d, body) ==
    [pc |-> p, idx |-> k, tempTables |-> tt, pending |-> stmt, held |-> h,
     dropIdx |-> d, resp |-> body]

\* a response that carries the rows next to the error
RespondBoth(h) == Body(200, "rows", h.rows, h.err)

\* res.json({ data: results, error: null }) / res.json({ data: null, error })
Respond(h) ==
    IF h.err = NoError THEN Body(200, "rows", h.rows, NoError)
    ELSE Body(200, "null", <<>>, h.err)

\* the tables the cleanup loop after a successful query walks over
CleanupOnSuccess(tt) == tt

\* a catch block that rethrows without cleaning up
CleanupOnErrorSkipped(tt) == <<>>

\* the tables the cleanup loop of the catch block walks over
CleanupOnError(tt) == tt

\* a cleanup loop from position d on: the next DROP, or the response
CleanupFrom(k, tt, d, h) ==
    IF d > Len(tt) THEN Local("done", k, tt, NoStmt, h, d, Respond(h))
    ELSE Local("cleanup", k, tt, DropTableSQL(tt[d]), h, d, NoResponse)

\* a cleanup loop that stops at a failed DROP and answers with its error
AfterDropEscalating(res, k, tt, d, h) ==
    IF res.err # NoError
    THEN Local("done", k, tt, NoStmt, Held(res.err, <<>>), d,
               Respond(Held(res.err, <<>>)))
    ELSE CleanupFrom(k, tt, d + 1, h)

\* try { await runQuery(`DROP TABLE ...`) } catch (e) { }: whatever the
\* engine answered, the loop goes on with the next table
AfterDrop(res, k, tt, d, h) == CleanupFrom(k, tt, d + 1, h)

\* a catch block that neither cleans up nor rethrows: no answer is sent
ThrowSwallowed(e, k, tt) ==
    Local("hung", k, tt, NoStmt, Held(e, <<>>), 0, NoResponse)

\* throw inside the inner try: the catch block cleans up and rethrows
Throw(e, k, tt) == CleanupFrom(k, CleanupOnError(tt), 1, Held(e, <<>>))

\* the check without its `results.length === 0` part
HasNoResultsLax(refs, label) ==
    \/ label \notin DOMAIN refs
    \/ refs[label].isNull

\* !referencedData || !referencedData.results || results.length === 0
HasNoResults(refs, label) ==
    \/ label \notin DOMAIN refs
    \/ refs[label].isNull
    \/ Len(refs[label].rows) = 0

\* an executeSQL that hands the trimmed text to runQuery whatever it is
ExecuteSQLUnchecked(text, k, tt) ==
    Local("executing", k, tt, QuerySQL(Trim(text)), NoHeld, 0, NoResponse)

\* executeSQL(modifiedSQL) of the server: trim, 'Empty query', runQuery
ExecuteSQL(text, k, tt) ==
    IF Trim(text) = <<>> THEN Throw(Err("EmptyQuery", <<>>), k, tt)
    ELSE Local("executing", k, tt, QuerySQL(Trim(text)), NoHeld, 0, NoResponse)

\* the first loop from match k on, then the rewrite and the query
RunLoop(text, refs, k, tt) ==
    LET matches == MatchAll(text) IN
    IF k > Len(matches)
    THEN ExecuteSQL(RewriteFrom(text, matches, 1), k, tt)
    ELSE LET nodeLabel == NodeLabel(matches[k]) IN
         IF HasNoResults(refs, nodeLabel)
         THEN Throw(Err("NoResults", nodeLabel), k, tt)
         ELSE IF refs[nodeLabel].rows = <<>>
         THEN \* Object.keys(results[0]) of an empty array throws, after the push
              Throw(Err("TypeError", nodeLabel), k,
                    Append(tt, TempTableName(nodeLabel)))
         ELSE Local("creating", k,
                    Append(tt, TempTableName(nodeLabel)),
                    CreateTableSQL(TempTableName(nodeLabel), refs[nodeLabel].rows),
                    NoHeld, 0, NoResponse)

\* the handler without its `if (!sql)` guard
HandleRefsUnguarded(text, refs) == RunLoop(text, refs, 1, <<>>)

\* the handler from its first line: if (!sql) return res.status(400)...
HandleRefs(text, refs) ==
    IF text = <<>>
    THEN Local("done", 0, <<>>, NoStmt, NoHeld, 0,
               Body(400, "absent", <<>>, Err("Required", <<>>)))
    ELSE RunLoop(text, refs, 1, <<>>)

\* res.json of the plain endpoint for the engine's answer
PlainAnswer(res) == Respond(Held(res.err, res.rows))

\* the handler of POST /api/query/local
HandlePlain(text) ==
    IF text = <<>>
    THEN Local("done", 0, <<>>, NoStmt, NoHeld, 0,
               Body(400, "absent", <<>>, Err("Required", <<>>)))
    ELSE IF Trim(text) = <<>>
    THEN Local("done", 0, <<>>, NoStmt, NoHeld, 0,
               Respond(Held(Err("EmptyQuery", <<>>), <<>>)))
    ELSE Local("plain", 0, <<>>, QuerySQL(Trim(text)), NoHeld, 0, NoResponse)

(***************************************************************************)
(* The client: SQLNode.executeQuery and utils/database.ts                  *)
(***************************************************************************)
\* a lookup that takes the first node with the label, whatever its type
GetNodeByLabelAnyType(ns, label) ==
    IF \E k \in 1..Len(ns) : ns[k].label = label
    THEN LET k == CHOOSE j \in 1..Len(ns) :
                     /\ ns[j].label = label
                     /\ \A i \in 1..(j - 1) : ns[i].label # label
         IN [found |-> TRUE, results |-> ns[k].results]
    ELSE [found |-> FALSE, results |-> Referenced(TRUE, <<>>)]

\* nodesRef.current.find(n => n.type === 'sqlNode' && n.data.label === label)
GetNodeByLabel(ns, label) ==
    IF \E k \in 1..Len(ns) : ns[k].type = "sqlNode" /\ ns[k].label = label
    THEN LET k == CHOOSE j \in 1..Len(ns) :
                     /\ ns[j].type = "sqlNode" /\ ns[j].label = label
                     /\ \A i \in 1..(j - 1) :
                            ~(ns[i].type = "sqlNode" /\ ns[i].label = label)
         IN [found |-> TRUE, results |-> ns[k].results]
    ELSE [found |-> FALSE, results |-> Referenced(TRUE, <<>>)]

\* a resolver that runs the referenced node again and stores its new rows
SetReferenceFresh(acc, nodeLabel, results) ==
    (nodeLabel :> Referenced(FALSE, SalesRowsLater)) @@ acc

\* references[nodeLabel] = referencedNode on an object literal: the key
\* __proto__ sets the prototype of the object and adds no key of its own,
\* so JSON.stringify leaves it out
SetReference(acc, nodeLabel, results) ==
    IF nodeLabel = Proto THEN acc ELSE (nodeLabel :> results) @@ acc

\* the loop that builds the references object: the first label that is not
\* found or has no results throws
RECURSIVE BuildReferences(_, _, _, _)
BuildReferences(matches, k, ns, acc) ==
    IF k > Len(matches) THEN [err |-> NoError, references |-> acc]
    ELSE LET nodeLabel == NodeLabel(matches[k])
             referencedNode == GetNodeByLabel(ns, nodeLabel) IN
         IF ~referencedNode.found
         THEN [err |-> Err("NotFound", nodeLabel), references |-> acc]
         ELSE IF referencedNode.results.isNull \/ Len(referencedNode.results.rows) = 0
         THEN [err |-> Err("NoResults", nodeLabel), references |-> acc]
         ELSE BuildReferences(matches, k + 1, ns,
                  SetReference(acc, nodeLabel, referencedNode.results))

\* sql.includes('{')
IncludesBrace(text) == \E k \in 1..Len(text) : text[k] = "{"

\* the ids of the SQL nodes on the canvas
SqlNodeIds(ns) == {ns[k].id : k \in {j \in 1..Len(ns) : ns[j].type = "sqlNode"}}

NodeWithId(ns, id) == ns[CHOOSE k \in 1..Len(ns) : ns[k].id = id]

\* setNodes(nds => nds.map(node => node.id === nodeId ? {..., results} : node))
UpdateNodeResults(ns, id, results) ==
    [k \in 1..Len(ns) |->
        IF ns[k].id = id THEN [ns[k] EXCEPT !.results = results] ELSE ns[k]]

\* setNodes(nds => nds.map(node => node.id === nodeId ? {..., label} : node))
UpdateNodeLabel(ns, id, newLabel) ==
    [k \in 1..Len(ns) |->
        IF ns[k].id = id THEN [ns[k] EXCEPT !.label = newLabel] ELSE ns[k]]

\* a catch that replaces every message by the fallback text
RethrowGeneric(e) == Err("Fallback", <<>>)

\* catch (error) { throw new Error(error.message || 'SQL execution error') }
Rethrow(e) == IF e = NoError THEN Err("Fallback", <<>>) ELSE e

\* what executeSQL / executeSQLWithReferences make of the response body:
\* if (result.error) throw new Error(result.error); return result.data || []
ClientOutcome(body) ==
    IF body.error # NoError
    THEN [threw |-> TRUE, error |-> Rethrow(body.error), rows |-> <<>>]
    ELSE [threw |-> FALSE, error |-> NoError,
          rows |-> IF body.data = "rows" THEN body.rows ELSE <<>>]

\* history: results were recorded for the label the node carries
Recorded(lr, ns, id, results) ==
    (NodeWithId(ns, id).label :> [id |-> id, results |-> results]) @@ lr

\* history: the node took a new label; its old label is bound to it no more
Relabelled(lr, ns, id, newLabel) ==
    LET old == NodeWithId(ns, id).label
        kept == {l \in DOMAIN lr : ~(l = old /\ lr[l].id = id)} IN
    (newLabel :> [id |-> id, results |-> NodeWithId(ns, id).results])
        @@ [l \in kept |-> lr[l]]

(***************************************************************************)
(* Actions                                                                 *)
(***************************************************************************)
Apply(r, loc) ==
    /\ pc' = [pc EXCEPT ![r] = loc.pc]
    /\ idx' = [idx EXCEPT ![r] = loc.idx]
    /\ tempTables' = [tempTables EXCEPT ![r] = loc.tempTables]
    /\ pending' = [pending EXCEPT ![r] = loc.pending]
    /\ held' = [held EXCEPT ![r] = loc.held]
    /\ dropIdx' = [dropIdx EXCEPT ![r] = loc.dropIdx]
    /\ resp' = [resp EXCEPT ![r] = loc.resp]

\* a request arrives and its handler runs to its first await
Start(r, org, ep, text, refs, loc) ==
    /\ pc[r] = "idle"
    /\ \A q \in Reqs : q < r => pc[q] # "idle"
    /\ Apply(r, loc)
    /\ origin' = [origin EXCEPT ![r] = org]
    /\ endpoint' = [endpoint EXCEPT ![r] = ep]
    /\ sql' = [sql EXCEPT ![r] = text]
    /\ references' = [references EXCEPT ![r] = refs]
    /\ before' = [before EXCEPT ![r] = catalog]
    /\ after' = [after EXCEPT ![r] = catalog]
    /\ alone' = [q \in Reqs |->
                    IF loc.pc = "done" THEN alone[q]
                    ELSE IF q = r THEN \A o \in Reqs \ {r} : ~InFlight(o)
                    ELSE IF InFlight(q) THEN FALSE ELSE alone[q]]
    /\ UNCHANGED <<catalog, clientErr, stmts, execCat, overdue>>
    /\ UNCHANGED <<startVars, answered, boardVars>>

\* the request comes from no node of the canvas
NoClient ==
    UNCHANGED <<nodes, nodesRef, nodeOf, cpc, shown, lastRecorded, seen,
                isExecuting>>

\* a raw request to POST /api/query/local/with-references
DirectRefs(r) ==
    \E in \in RefsInputs :
        /\ Start(r, "direct", "refs", in.sql, in.references,
                 HandleRefs(in.sql, in.references))
        /\ NoClient

\* a raw request to POST /api/query/local
DirectPlain(r) ==
    \E text \in PlainInputs :
        /\ Start(r, "direct", "plain", text, NoReferences, HandlePlain(text))
        /\ NoClient

\* a raw request to the with-references endpoint with any text, and rows
\* for every label of it
AnyText(r) ==
    /\ pc[r] = "idle"
    /\ \E text \in Texts :
        /\ Start(r, "direct", "refs", text, AllRefs(text),
                 HandleRefs(text, AllRefs(text)))
        /\ NoClient

\* a raw request to the with-references endpoint for SELECT * FROM {sales}
\* with any of the result sets for sales
AnyResults(r) ==
    /\ pc[r] = "idle"
    /\ \E results \in ResultSets :
        LET refs == OneRef(Sales, Referenced(FALSE, results)) IN
        /\ Start(r, "direct", "refs", QueryAllSales, refs,
                 HandleRefs(QueryAllSales, refs))
        /\ NoClient

\* executeQuery of node id awaits the answer to its request
FromNode(r, id) ==
    /\ nodeOf' = [nodeOf EXCEPT ![r] = id]
    /\ cpc' = [cpc EXCEPT ![r] = "waiting"]
    /\ seen' = [seen EXCEPT ![r] = nodesRef]
    /\ isExecuting' = [isExecuting EXCEPT ![id] = TRUE]
    /\ UNCHANGED <<nodes, nodesRef, shown, lastRecorded>>

\* finally { setIsExecuting(false) }
Finally(exec, id) == [exec EXCEPT ![id] = FALSE]

\* the client fails before it sends anything; the catch block of
\* executeQuery shows the message and records null results for the node
ClientThrows(r, id, e) ==
    /\ pc[r] = "idle"
    /\ \A q \in Reqs : q < r => pc[q] # "idle"
    /\ pc' = [pc EXCEPT ![r] = "done"]
    /\ origin' = [origin EXCEPT ![r] = "client"]
    /\ clientErr' = [clientErr EXCEPT ![r] = e]
    /\ before' = [before EXCEPT ![r] = catalog]
    /\ after' = [after EXCEPT ![r] = catalog]
    /\ nodeOf' = [nodeOf EXCEPT ![r] = id]
    /\ cpc' = [cpc EXCEPT ![r] = "settled"]
    /\ seen' = [seen EXCEPT ![r] = nodesRef]
    /\ shown' = [shown EXCEPT ![r] = e]
    /\ nodes' = UpdateNodeResults(nodes, id, Referenced(TRUE, <<>>))
    /\ lastRecorded' = Recorded(lastRecorded, nodes, id, Referenced(TRUE, <<>>))
    /\ isExecuting' = Finally(isExecuting, id)
    /\ UNCHANGED <<catalog, nodesRef, overdue, endpoint, idx, tempTables, pending,
                   held, dropIdx, resp, stmts, execCat, alone>>
    /\ UNCHANGED <<startVars, answered, boardVars>>

\* SQLNode.executeQuery: executeSQLWithReferences when the text holds a
\* brace, executeSQL otherwise
NodeExecuteOf(r, texts) ==
    /\ pc[r] = "idle"
    /\ \E id \in SqlNodeIds(nodes), text \in texts :
        LET trimmedSQL == Trim(text)
            built == BuildReferences(MatchAll(trimmedSQL), 1, nodesRef, NoReferences) IN
        IF trimmedSQL = <<>>
        THEN ClientThrows(r, id, Err("EmptyQuery", <<>>))
                /\ sql' = [sql EXCEPT ![r] = text]
                /\ UNCHANGED references
        ELSE IF ~IncludesBrace(text)
        THEN Start(r, "client", "plain", trimmedSQL, NoReferences,
                   HandlePlain(trimmedSQL))
                /\ FromNode(r, id)
        ELSE IF built.err # NoError
        THEN ClientThrows(r, id, built.err)
                /\ sql' = [sql EXCEPT ![r] = text]
                /\ references' = [references EXCEPT ![r] = built.references]
        ELSE Start(r, "client", "refs", trimmedSQL, built.references,
                   HandleRefs(trimmedSQL, built.references))
                /\ FromNode(r, id)

NodeExecute(r) == NodeExecuteOf(r, NodeInputs)

\* executeQuery on the canvas with the node labelled __proto__
ResolverExecute(r) == NodeExecuteOf(r, ResolverInputs)

\* the response reaches executeQuery: it shows the rows or the error and
\* hands the results (null on error) to updateNodeResults
ClientReceives(r) ==
    LET out == ClientOutcome(resp[r])
        results == IF out.threw THEN Referenced(TRUE, <<>>)
                   ELSE Referenced(FALSE, out.rows) IN
    /\ cpc[r] = "waiting"
    /\ pc[r] = "done"
    /\ cpc' = [cpc EXCEPT ![r] = "settled"]
    /\ shown' = [shown EXCEPT ![r] = out.error]
    /\ nodes' = UpdateNodeResults(nodes, nodeOf[r], results)
    /\ lastRecorded' = Recorded(lastRecorded, nodes, nodeOf[r], results)
    /\ isExecuting' = Finally(isExecuting, nodeOf[r])
    /\ UNCHANGED <<catalog, nodesRef, nodeOf, overdue, seen, pc, origin, endpoint,
                   sql, references, idx, tempTables, pending, held, dropIdx,
                   resp, clientErr, stmts, before, after, execCat, alone>>
    /\ UNCHANGED <<startVars, answered, boardVars>>

\* useEffect(() => { nodesRef.current = nodes }, [nodes]) after a render
EffectRuns ==
    /\ nodesRef # nodes
    /\ nodesRef' = nodes
    /\ UNCHANGED <<catalog, nodes, nodeOf, cpc, shown, overdue, lastRecorded, seen,
                   pc, origin, endpoint, sql, references, idx, tempTables,
                   pending, held, dropIdx, resp, clientErr, stmts, before,
                   after, execCat, alone, isExecuting>>
    /\ UNCHANGED <<startVars, answered, boardVars>>

\* handleLabelChange of a node: onLabelChange(id, newLabel)
HandleLabelChange ==
    \E id \in SqlNodeIds(nodes), newLabel \in NewLabels :
        /\ NodeWithId(nodes, id).label # newLabel
        /\ nodes' = UpdateNodeLabel(nodes, id, newLabel)
        /\ lastRecorded' = Relabelled(lastRecorded, nodes, id, newLabel)
        /\ UNCHANGED <<catalog, nodesRef, nodeOf, cpc, shown, overdue, seen, pc,
                       origin, endpoint, sql, references, idx, tempTables,
                       pending, held, dropIdx, resp, clientErr, stmts, before,
                       after, execCat, alone, isExecuting>>
        /\ UNCHANGED <<startVars, answered, boardVars>>

\* the request-level timeout runs out while the query is with the engine;
\* no timer is set in the handler, so nothing else changes
TimeoutElapses(r) ==
    /\ pc[r] = "executing"
    /\ ~overdue[r]
    /\ overdue' = [overdue EXCEPT ![r] = TRUE]
    /\ UNCHANGED <<catalog, nodes, nodesRef, nodeOf, cpc, shown, lastRecorded,
                   seen, pc, origin, endpoint, sql, references, idx, tempTables,
                   pending, held, dropIdx, resp, clientErr, stmts, before,
                   after, execCat, alone, isExecuting>>
    /\ UNCHANGED <<startVars, answered, boardVars>>

\* conn.all answers the statement of request r; the handler runs on to its
\* next await or to its response
Returns(r, at, loc, res) ==
    /\ pc[r] = at
    /\ catalog' = res.cat
    /\ Apply(r, loc)
    /\ stmts' = [stmts EXCEPT ![r] =
                    Append(@, [op |-> pending[r].op, name |-> pending[r].name,
                               ok |-> res.err = NoError, err |-> res.err])]
    /\ execCat' = IF at \in {"executing", "plain"}
                  THEN [execCat EXCEPT ![r] = catalog] ELSE execCat
    /\ after' = [after EXCEPT ![r] = res.cat]
    /\ UNCHANGED <<nodes, nodesRef, nodeOf, cpc, shown, overdue, lastRecorded,
                   seen, origin, endpoint, sql, references, clientErr,
                   before, alone, isExecuting>>
    /\ answered' = [answered EXCEPT ![r] = @ + 1]
    /\ UNCHANGED <<startVars, boardVars>>

\* a loop that goes on to the next match although the CREATE was rejected
CreateReturnsLenient(r) ==
    LET res == Engine(catalog, pending[r], r) IN
    Returns(r, "creating",
            RunLoop(sql[r], references[r], idx[r] + 1, tempTables[r]),
            res)

\* await runQuery(createTableSQL) returns or throws
CreateReturns(r) ==
    LET res == Engine(catalog, pending[r], r) IN
    Returns(r, "creating",
            IF res.err # NoError THEN Throw(res.err, idx[r], tempTables[r])
            ELSE RunLoop(sql[r], references[r], idx[r] + 1, tempTables[r]),
            res)

\* await executeSQL(modifiedSQL) returns or throws
QueryReturns(r) ==
    LET res == Engine(catalog, pending[r], r) IN
    Returns(r, "executing",
            IF res.err # NoError THEN Throw(res.err, idx[r], tempTables[r])
            ELSE CleanupFrom(idx[r], CleanupOnSuccess(tempTables[r]), 1,
                             Held(NoError, res.rows)),
            res)

\* await runQuery(`DROP TABLE ...`) returns or throws; the error is ignored
DropReturns(r) ==
    LET res == Engine(catalog, pending[r], r) IN
    Returns(r, "cleanup",
            AfterDrop(res, idx[r], tempTables[r], dropIdx[r], held[r]),
            res)

\* await executeSQL(sql) of the plain endpoint returns or throws
PlainReturns(r) ==
    LET res == Engine(catalog, pending[r], r) IN
    Returns(r, "plain",
            Local("done", 0, <<>>, NoStmt, NoHeld, 0, PlainAnswer(res)),
            res)

\* the server under requests of every origin, while the canvas the ref
\* shows stays as it is
Next ==
    \E r \in Reqs :
        \/ DirectRefs(r)
        \/ DirectPlain(r)
        \/ NodeExecute(r)
        \/ CreateReturns(r)
        \/ QueryReturns(r)
        \/ DropReturns(r)
        \/ PlainReturns(r)
        \/ TimeoutElapses(r)

Spec == Init /\ [][Next]_vars

\* the server under raw requests to both endpoints
LiveNext ==
    \E r \in Reqs :
        \/ DirectRefs(r)
        \/ DirectPlain(r)
        \/ CreateReturns(r)
        \/ QueryReturns(r)
        \/ DropReturns(r)
        \/ PlainReturns(r)

\* request r waits for conn.all
Waiting(r) == pc[r] \in {"creating", "executing", "cleanup", "plain"}

\* conn.all answers the statement request r waits for: the steps of
\* CreateReturns, QueryReturns, DropReturns and PlainReturns for r
EngineReturns(r) ==
    /\ Waiting(r)
    /\ answered' = [answered EXCEPT ![r] = @ + 1]

\* every statement handed to conn.all is answered in the end
EngineAnswers == \A r \in Reqs : WF_answered(EngineReturns(r))

LiveSpec == Init /\ [][LiveNext]_vars /\ EngineAnswers

\* the canvas: nodes run their queries, receive the answers, are renamed,
\* and the effect brings the ref up to date
CanvasNext ==
    \/ \E r \in Reqs :
        \/ NodeExecute(r)
        \/ CreateReturns(r)
        \/ QueryReturns(r)
        \/ DropReturns(r)
        \/ PlainReturns(r)
        \/ ClientReceives(r)
    \/ EffectRuns
    \/ HandleLabelChange

CanvasSpec == Init /\ [][CanvasNext]_vars

\* the client resolver and the server on the canvas with the node labelled
\* __proto__
ResolverInit == ServerInitWith(ProtoCanvas) /\ Ready

ResolverNext ==
    \/ \E r \in Reqs :
        \/ ResolverExecute(r)
        \/ CreateReturns(r)
        \/ QueryReturns(r)
        \/ DropReturns(r)
        \/ ClientReceives(r)
    \/ EffectRuns

ResolverSpec == ResolverInit /\ [][ResolverNext]_vars

\* one request at a time to the with-references endpoint, over all texts
\* and all result sets
InputsNext ==
    \/ AnyText(1)
    \/ AnyResults(1)
    \/ CreateReturns(1)
    \/ QueryReturns(1)
    \/ DropReturns(1)

InputsSpec == Init /\ [][InputsNext]_vars

(***************************************************************************)
(* Server start: index.js calls initDatabase() and app.listen() in the     *)
(* same turn, so requests arrive while the database is still being opened. *)
(***************************************************************************)
\* the state when the module has been loaded: the initDatabase() of
\* index.js:13 has opened the database and waits for its callback
StartInit ==
    /\ ServerInit
    /\ dbFile \in BOOLEAN
    /\ db = 1
    /\ conn = 0
    /\ inits = [c \in Callers |->
                   IF c = 0 THEN InitCall("opening", dbFile, 0) ELSE NoInitCall]
    /\ sample = IF dbFile THEN {SampleTables[k] : k \in 1..Len(SampleTables)}
                ELSE {}
    /\ opened = 1
    /\ connected = 0
    /\ creates = 0
    /\ nullUse = {}

\* .catch of index.js:17-20: process.exit(1)
Exited == inits[0].st = "rejected"

\* initDatabase() up to its `new duckdb.Database(dbPath, callback)`
InitDatabase(c) ==
    IF db # 0 /\ conn # 0
    THEN /\ inits' = [inits EXCEPT ![c] = InitCall("resolved", dbFile, 0)]
         /\ UNCHANGED <<db, conn, dbFile, sample, opened, connected, creates,
                        nullUse>>
    ELSE /\ db' = opened + 1
         /\ opened' = opened + 1
         /\ inits' = [inits EXCEPT ![c] = InitCall("opening", dbFile, 0)]
         /\ UNCHANGED <<conn, dbFile, sample, connected, creates, nullUse>>

\* the engine creates the database file while it opens it
FileAppears ==
    /\ ~Exited
    /\ ~dbFile
    /\ \E c \in Callers : inits[c].st = "opening"
    /\ dbFile' = TRUE
    /\ UNCHANGED <<db, conn, inits, sample, opened, connected, creates, nullUse>>
    /\ UNCHANGED <<catalog, overdue, pc, origin, endpoint, sql, references, idx,
                   tempTables, pending, held, dropIdx, resp, clientErr, stmts,
                   before, after, execCat, alone>>
    /\ UNCHANGED <<answered, boardVars>>
    /\ NoClient

\* the callback of new duckdb.Database: conn = db.connect(), then
\* createTablesAndData() unless the file existed when initDatabase was called
OpenReturns(c) ==
    /\ ~Exited
    /\ inits[c].st = "opening"
    /\ conn' = db
    /\ connected' = connected + 1
    /\ dbFile' = TRUE
    /\ IF inits[c].dbExists
       THEN /\ inits' = [inits EXCEPT ![c].st = "resolved"]
            /\ UNCHANGED creates
       ELSE /\ inits' = [inits EXCEPT ![c] = InitCall("creating", FALSE, 1)]
            /\ creates' = creates + 1
    /\ UNCHANGED <<db, sample, opened, nullUse>>
    /\ UNCHANGED <<catalog, overdue, pc, origin, endpoint, sql, references, idx,
                   tempTables, pending, held, dropIdx, resp, clientErr, stmts,
                   before, after, execCat, alone>>
    /\ UNCHANGED <<answered, boardVars>>
    /\ NoClient

\* createTablesAndData: the engine answers the CREATE TABLE of the next
\* sample table, and at last the statements that generate the rows
CreateTablesStep(c) ==
    /\ ~Exited
    /\ inits[c].st = "creating"
    /\ LET k == inits[c].step IN
       IF k > Len(SampleTables)
       THEN /\ inits' = [inits EXCEPT ![c].st = "resolved"]
            /\ UNCHANGED sample
       ELSE IF SampleTables[k] \in sample
       THEN \* the table exists already: the promise is rejected
            /\ inits' = [inits EXCEPT ![c].st = "rejected"]
            /\ UNCHANGED sample
       ELSE /\ inits' = [inits EXCEPT ![c].step = k + 1]
            /\ sample' = sample \cup {SampleTables[k]}
    /\ UNCHANGED <<db, conn, dbFile, opened, connected, creates, nullUse>>
    /\ UNCHANGED <<catalog, overdue, pc, origin, endpoint, sql, references, idx,
                   tempTables, pending, held, dropIdx, resp, clientErr, stmts,
                   before, after, execCat, alone>>
    /\ UNCHANGED <<answered, boardVars>>
    /\ NoClient

\* a request to POST /api/query/local while conn is null: executeSQL calls
\* initDatabase() and waits for it
EarlyPlain(r) ==
    /\ ~Exited
    /\ conn = 0
    /\ pc[r] = "idle"
    /\ \A q \in Reqs : q < r => pc[q] # "idle"
    /\ \E text \in PlainInputs \ {<<>>} :
        /\ sql' = [sql EXCEPT ![r] = text]
        /\ pc' = [pc EXCEPT ![r] = "initializing"]
        /\ origin' = [origin EXCEPT ![r] = "direct"]
        /\ endpoint' = [endpoint EXCEPT ![r] = "plain"]
        /\ InitDatabase(r)
    /\ UNCHANGED <<catalog, overdue, references, idx, tempTables, pending, held,
                   dropIdx, resp, clientErr, stmts, before, after, execCat,
                   alone>>
    /\ UNCHANGED <<answered, boardVars>>
    /\ NoClient

\* a request to the with-references endpoint while conn is null:
\* runQuery(createTableSQL) calls conn.all on null, the promise is rejected,
\* the DROP of the catch block fails in the same way and is ignored, and
\* the TypeError is the answer
EarlyRefs(r) ==
    LET refs == OneRef(Sales, Referenced(FALSE, SalesRows))
        first == HandleRefs(QueryAllSales, refs)
        caught == Throw(Err("NullConn", <<>>), first.idx, first.tempTables)
        last == AfterDrop(EngineResult(Err("NullConn", <<>>), <<>>, catalog),
                          caught.idx, caught.tempTables, caught.dropIdx,
                          caught.held) IN
    /\ ~Exited
    /\ conn = 0
    /\ pc[r] = "idle"
    /\ \A q \in Reqs : q < r => pc[q] # "idle"
    /\ Apply(r, last)
    /\ sql' = [sql EXCEPT ![r] = QueryAllSales]
    /\ references' = [references EXCEPT ![r] = refs]
    /\ origin' = [origin EXCEPT ![r] = "direct"]
    /\ endpoint' = [endpoint EXCEPT ![r] = "refs"]
    /\ nullUse' = nullUse \cup {r}
    /\ UNCHANGED <<db, conn, dbFile, inits, sample, opened, connected, creates>>
    /\ UNCHANGED <<catalog, overdue, clientErr, stmts, before, after, execCat,
                   alone>>
    /\ UNCHANGED <<answered, boardVars>>
    /\ NoClient

\* `await initDatabase()` of executeSQL settles: the query goes to
\* runQuery, or the rejection is the answer
InitSettles(r) ==
    /\ ~Exited
    /\ pc[r] = "initializing"
    /\ inits[r].st \in {"resolved", "rejected"}
    /\ Apply(r, IF inits[r].st = "rejected"
                THEN Local("done", 0, <<>>, NoStmt, NoHeld, 0,
                           Respond(Held(Err("InitFailed", <<>>), <<>>)))
                ELSE HandlePlain(sql[r]))
    /\ UNCHANGED <<startVars, answered, boardVars>>
    /\ UNCHANGED <<catalog, overdue, origin, endpoint, sql, references,
                   clientErr, stmts, before, after, execCat, alone>>
    /\ NoClient

\* the engine answers the query of a request that waited for initDatabase
LatePlainReturns(r) ==
    /\ ~Exited
    /\ PlainReturns(r)

StartNext ==
    \/ FileAppears
    \/ \E c \in Callers :
        \/ OpenReturns(c)
        \/ CreateTablesStep(c)
    \/ \E r \in Reqs :
        \/ EarlyPlain(r)
        \/ EarlyRefs(r)
        \/ InitSettles(r)
        \/ LatePlainReturns(r)

StartSpec == StartInit /\ [][StartNext]_vars

(***************************************************************************)
(* The canvas toolbar: add, delete, clear, save and load                   *)
(***************************************************************************)
NodeTypes == {"sqlNode", "noteNode", "rectangleNode"}

\* nodeId.toString() in a label
DigitChar(n) == <<"0", "1", "2", "3", "4", "5", "6", "7", "8", "9">>[n + 1]

\* `SQL Node #${nodeId}`, `Note #${nodeId}`; a rectangle has no label
DefaultLabel(type, n) ==
    IF type = "sqlNode"
    THEN <<"S", "Q", "L", " ", "N", "o", "d", "e", " ", "#", DigitChar(n)>>
    ELSE IF type = "noteNode"
    THEN <<"N", "o", "t", "e", " ", "#", DigitChar(n)>>
    ELSE <<>>

\* the canvas after the effect that sets the first node
InitialNodes ==
    <<CanvasNode(1, "sqlNode", DefaultLabel("sqlNode", 1), Referenced(TRUE, <<>>))>>

\* what saveCanvas keeps of a node: no results and no callbacks
SavedNode(node) == [id |-> node.id, type |-> node.type, label |-> node.label]

\* the canvasState that saveCanvas writes to canvas-state.json
CanvasState(ns, n) ==
    [nodes |-> [k \in 1..Len(ns) |-> SavedNode(ns[k])], nodeId |-> n]

\* savedNodes.map(node => ({...node, data: {...node.data, results: null}}))
RestoredNodes(file) ==
    [k \in 1..Len(file.nodes) |->
        CanvasNode(file.nodes[k].id, file.nodes[k].type, file.nodes[k].label,
                   Referenced(TRUE, <<>>))]

\* a loadCanvas that leaves the counter as it is
LoadedNodeIdKept(savedNodeId, current) == current

\* setNodeId(savedNodeId)
LoadedNodeId(savedNodeId, current) == savedNodeId

\* what the toolbar leaves alone
BoardFrame ==
    /\ UNCHANGED <<catalog, overdue, pc, origin, endpoint, sql, references, idx,
                   tempTables, pending, held, dropIdx, resp, clientErr, stmts,
                   before, after, execCat, alone>>
    /\ UNCHANGED <<nodesRef, nodeOf, cpc, shown, lastRecorded, seen, isExecuting>>
    /\ UNCHANGED <<startVars, answered>>

\* addNode, addNoteNode, addRectangleNode
AddNode(type) ==
    /\ nodeId < MaxNodeId
    /\ nodes' = Append(nodes, CanvasNode(nodeId, type, DefaultLabel(type, nodeId),
                                         Referenced(TRUE, <<>>)))
    /\ nodeId' = nodeId + 1
    /\ UNCHANGED saved
    /\ BoardFrame

\* deleteNode: setNodes(nds => nds.filter(node => node.id !== nodeId))
DeleteNode(id) ==
    /\ \E k \in 1..Len(nodes) : nodes[k].id = id
    /\ nodes' = SelectSeq(nodes, LAMBDA node : node.id # id)
    /\ UNCHANGED <<nodeId, saved>>
    /\ BoardFrame

\* clearCanvas, confirmed: setNodes([]); setNodeId(2)
ClearCanvas ==
    /\ nodes' = <<>>
    /\ nodeId' = 2
    /\ UNCHANGED saved
    /\ BoardFrame

\* saveCanvas downloads the canvas state
SaveCanvas ==
    /\ CanvasState(nodes, nodeId) \notin saved
    /\ saved' = {CanvasState(nodes, nodeId)}
    /\ UNCHANGED <<nodes, nodeId>>
    /\ BoardFrame

\* loadCanvas with a file that saveCanvas has written
LoadCanvas ==
    \E file \in saved :
        /\ nodes' = RestoredNodes(file)
        /\ nodeId' = LoadedNodeId(file.nodeId, nodeId)
        /\ UNCHANGED saved
        /\ BoardFrame

\* the toolbar on the canvas the application starts with
BoardInit == ServerInitWith(InitialNodes) /\ Ready

BoardNext ==
    \/ \E type \in NodeTypes : AddNode(type)
    \/ \E id \in 1..MaxNodeId : DeleteNode(id)
    \/ ClearCanvas
    \/ SaveCanvas
    \/ LoadCanvas

BoardSpec == BoardInit /\ [][BoardNext]_vars

\* query texts typed into a node of a canvas that is saved and loaded
LoadInputs == {QueryUsers, QueryOne}

LoadExecute(r) == NodeExecuteOf(r, LoadInputs)

\* a canvas in use, saved and loaded while its nodes run their queries
LoadNext ==
    \/ \E r \in Reqs :
        \/ LoadExecute(r)
        \/ CreateReturns(r)
        \/ QueryReturns(r)
        \/ DropReturns(r)
        \/ PlainReturns(r)
        \/ ClientReceives(r)
    \/ EffectRuns
    \/ SaveCanvas
    \/ LoadCanvas

LoadSpec == Init /\ [][LoadNext]_vars

\* whitespace-only texts
Blank == <<" ">>
Blanks == <<" ", " ">>

\* texts typed into a node or posted to an endpoint: empty, whitespace-only
\* and two queries
EmptyInputs == {<<>>, Blank, Blanks, QueryUsers, QueryOne}

EmptyExecute(r) == NodeExecuteOf(r, EmptyInputs)

\* a raw request to POST /api/query/local/with-references with one of the
\* texts
EmptyRefs(r) ==
    /\ pc[r] = "idle"
    /\ \E text \in EmptyInputs :
        /\ Start(r, "direct", "refs", text, AllRefs(text),
                 HandleRefs(text, AllRefs(text)))
        /\ NoClient

\* a raw request to POST /api/query/local with one of the texts
EmptyPlain(r) ==
    /\ pc[r] = "idle"
    /\ \E text \in EmptyInputs :
        /\ Start(r, "direct", "plain", text, NoReferences, HandlePlain(text))
        /\ NoClient

\* the client and both endpoints under empty and whitespace-only texts
EmptyNext ==
    \/ \E r \in Reqs :
        \/ EmptyExecute(r)
        \/ EmptyRefs(r)
        \/ EmptyPlain(r)
        \/ CreateReturns(r)
        \/ QueryReturns(r)
        \/ DropReturns(r)
        \/ PlainReturns(r)
        \/ ClientReceives(r)
    \/ EffectRuns

EmptySpec == Init /\ [][EmptyNext]_vars

(***************************************************************************)
(* Vocabulary of the properties                                            *)
(***************************************************************************)
Done(r) == pc[r] = "done"

\* the with-references endpoint has answered request r
Served(r) == Done(r) /\ endpoint[r] = "refs"

\* the error the caller of request r sees: thrown by the client before
\* sending, or the error field of the response
ReportedError(r) == IF clientErr[r] # NoError THEN clientErr[r] ELSE resp[r].error

\* the names of the statements of kind op that request r issued, in order
RECURSIVE NamesOf(_, _)
NamesOf(log, op) ==
    IF log = <<>> THEN <<>>
    ELSE (IF Head(log).op = op THEN <<Head(log).name>> ELSE <<>>)
         \o NamesOf(Tail(log), op)

\* ... and of those that the engine accepted
RECURSIVE NamesOk(_, _)
NamesOk(log, op) ==
    IF log = <<>> THEN <<>>
    ELSE (IF Head(log).op = op /\ Head(log).ok THEN <<Head(log).name>> ELSE <<>>)
         \o NamesOk(Tail(log), op)

Range(f) == {f[k] : k \in DOMAIN f}

\* the labels the text of request r references, in scan order
LabelsOf(text) ==
    LET matches == MatchAll(text) IN
    [k \in 1..Len(matches) |-> NodeLabel(matches[k])]

SalesTable == <<"t", "e", "m", "p", "_", "s", "a", "l", "e", "s">>

\* the user's own statement creates a relation
OwnCreate(r) == OccursAt(sql[r], CreateTemp, 1)

\* the rows of R with total > 60, straight from the JSON rows
Over60(rows) ==
    LET Keep(row) == Get(row, "total").t = "num" /\ Get(row, "total").n > 60 IN
    SelectSeq(rows, Keep)

\* request r carries rows for "sales" made of numbers and strings only
PlainSales(r) ==
    /\ Sales \in DOMAIN references[r]
    /\ references[r][Sales].rows \in {SalesRows, SalesRowsLater}

(***************************************************************************)
(* C1: for every with-references request, successful or failed, that runs  *)
(* with no other request in flight, the temporary relations in the engine  *)
(* when the response is sent are those that were there when the request    *)
(* arrived (a request whose own statement is a CREATE aside).              *)
(***************************************************************************)
CatalogRestored ==
    \A r \in Reqs :
        (Served(r) /\ alone[r] /\ ~OwnCreate(r)) => after[r] = before[r]

(***************************************************************************)
(* C2: when the requests in flight all reference the label "sales", each   *)
(* with its own rows, every request answers with the rows of its own data  *)
(* that have total > 60, and none fails.                                   *)
(***************************************************************************)
OwnRowsRead ==
    (\A q \in Reqs : pc[q] # "idle" =>
        endpoint[q] = "refs" /\ sql[q] = QueryOne /\ PlainSales(q))
    => \A r \in Reqs :
           Served(r) =>
               /\ resp[r].error = NoError
               /\ resp[r].rows = Over60(references[r][Sales].rows)

(***************************************************************************)
(* C3: a query that references the same label twice ({sales} ... {sales},  *)
(* or {sales} ... { sales }) creates exactly one relation for it, succeeds *)
(* and returns the self-join rows.                                         *)
(***************************************************************************)
DuplicateLabelOnce ==
    \A r \in Reqs :
        (/\ Served(r)
         /\ alone[r]
         /\ sql[r] \in {QueryDup, QueryWs}
         /\ PlainSales(r)
         /\ SalesTable \notin DOMAIN before[r])
        => /\ NamesOf(stmts[r], "create") = <<SalesTable>>
           /\ resp[r].error = NoError
           /\ resp[r].rows = references[r][Sales].rows

RequestScopedNames ==
    \A r1, r2 \in Reqs :
        (r1 # r2 /\ InFlight(r1) /\ InFlight(r2))
        => Range(tempTables[r1]) \cap Range(tempTables[r2]) = {}

(***************************************************************************)
(* C6: a request whose first referenced label is carried by no node (the   *)
(* client's lookup finds no SQL node, the references map has no entry)     *)
(* fails with the not-found error that names the label.                    *)
(***************************************************************************)
Referencing(r) == Done(r) /\ origin[r] # "none" /\ endpoint[r] # "plain"

Missing(r, label) ==
    IF origin[r] = "client" THEN ~GetNodeByLabel(seen[r], label).found
    ELSE label \notin DOMAIN references[r]

MissingLabelNotFound ==
    \A r \in Reqs :
        LET labels == LabelsOf(sql[r]) IN
        (/\ Referencing(r)
         /\ labels # <<>>
         /\ Missing(r, labels[1]))
        => ReportedError(r) = Err("NotFound", labels[1])

(***************************************************************************)
(* C7: if any label of the query fails to resolve (not found or empty),    *)
(* the request issues no CREATE at all.                                    *)
(***************************************************************************)
ExistsButEmpty(r, label) ==
    IF origin[r] = "client"
    THEN LET node == GetNodeByLabel(seen[r], label) IN
         node.found /\ (node.results.isNull \/ node.results.rows = <<>>)
    ELSE /\ label \in DOMAIN references[r]
         /\ (references[r][label].isNull \/ references[r][label].rows = <<>>)

Unresolved(r, label) == Missing(r, label) \/ ExistsButEmpty(r, label)

NoCreateOnResolutionFailure ==
    \A r \in Reqs :
        LET labels == LabelsOf(sql[r]) IN
        (/\ Referencing(r)
         /\ \E k \in 1..Len(labels) : Unresolved(r, labels[k]))
        => NamesOf(stmts[r], "create") = <<>>

PlainResponse(text, cat) ==
    IF HandlePlain(text).pc = "done" THEN HandlePlain(text).resp
    ELSE PlainAnswer(Engine(cat, HandlePlain(text).pending, 0))

PlainEquivalence ==
    \A r \in Reqs :
        (Served(r) /\ MatchAll(sql[r]) = <<>>)
        => /\ NamesOf(stmts[r], "create") = <<>>
           /\ NamesOf(stmts[r], "drop") = <<>>
           /\ resp[r] = PlainResponse(sql[r], execCat[r])

\* a text without references was answered with rows
PlainRowsServed ==
    \E r \in Reqs :
        /\ Served(r)
        /\ sql[r] = QueryUsers
        /\ resp[r].data = "rows"
        /\ resp[r].rows # <<>>

(***************************************************************************)
(* C10: for a query that references the one label "sales", whose rows R    *)
(* are not empty, the relation the query runs on holds the rows of R in    *)
(* order under the columns of R's first row, and the response is the rows  *)
(* of R with total > 60.                                                   *)
(***************************************************************************)
\* the rows of R under the given columns; a key a row lacks reads as NULL
RowsUnder(rows, columns) ==
    [k \in 1..Len(rows) |->
        [c \in 1..Len(columns) |->
            <<columns[c],
              IF Get(rows[k], columns[c]) = Undefined THEN Null
              ELSE Get(rows[k], columns[c])>>]]

RelationHoldsRows ==
    \A r \in Reqs :
        (/\ Served(r)
         /\ sql[r] = QueryOne
         /\ Sales \in DOMAIN references[r]
         /\ ~references[r][Sales].isNull
         /\ references[r][Sales].rows # <<>>)
        => /\ SalesTable \in DOMAIN execCat[r]
           /\ JsonRows(execCat[r][SalesTable])
                  = RowsUnder(references[r][Sales].rows,
                              Keys(references[r][Sales].rows[1]))
           /\ resp[r].error = NoError
           /\ resp[r].rows = Over60(references[r][Sales].rows)

(***************************************************************************)
(* C11: every response either endpoint has sent, on every path (rows,      *)
(* any failure, the rejection of a missing sql), has exactly one of data   *)
(* and error non-null.                                                     *)
(***************************************************************************)
Responded(r) == Done(r) /\ resp[r] # NoResponse

DataNonNull(body) == body.data = "rows"

ErrorNonNull(body) == body.error # NoError

ExactlyOneOfDataError ==
    \A r \in Reqs :
        Responded(r) => (DataNonNull(resp[r]) # ErrorNonNull(resp[r]))

\* the three kinds of response: a rejection, rows, and an error sent after
\* a cleanup that followed an accepted CREATE
AllResponseKindsSeen ==
    /\ \E r \in Reqs : Responded(r) /\ resp[r].status = 400
    /\ \E r \in Reqs :
           /\ Responded(r)
           /\ ErrorNonNull(resp[r])
           /\ resp[r].status = 200
           /\ NamesOk(stmts[r], "drop") # <<>>

(***************************************************************************)
(* C12: within one request, distinct referenced labels are materialized    *)
(* under distinct relation names, also when the labels differ only in      *)
(* characters outside [A-Za-z0-9_].                                        *)
(***************************************************************************)
DistinctLabelsDistinctNames ==
    \A r \in Reqs :
        LET labels == LabelsOf(sql[r]) IN
        Served(r) =>
            \A i, j \in 1..Len(tempTables[r]) :
                labels[i] # labels[j] => tempTables[r][i] # tempTables[r][j]

(***************************************************************************)
(* C14: a DROP that fails during cleanup never changes the outcome: a      *)
(* request whose query succeeded still returns the query's rows, a request *)
(* that had failed still returns the error it failed with, and a DROP has  *)
(* been attempted for every tracked relation.                              *)
(***************************************************************************)
\* the entries of the log that are not DROPs and were rejected
Rejected(log) ==
    LET Bad(e) == e.op # "drop" /\ ~e.ok IN SelectSeq(log, Bad)

DropFailed(log) == \E k \in 1..Len(log) : log[k].op = "drop" /\ ~log[k].ok

QueryAccepted(log) == \E k \in 1..Len(log) : log[k].op = "query" /\ log[k].ok

DropFailureIgnored ==
    \A r \in Reqs :
        (Served(r) /\ DropFailed(stmts[r])) =>
            /\ NamesOf(stmts[r], "drop") = tempTables[r]
            /\ IF QueryAccepted(stmts[r])
               THEN /\ resp[r].error = NoError
                    /\ resp[r].data = "rows"
                    /\ resp[r].rows =
                           ExecQuery(execCat[r], Trim(ModifiedSQL(sql[r]))).rows
               ELSE IF Rejected(stmts[r]) # <<>>
               THEN resp[r].error = Rejected(stmts[r])[1].err
               ELSE resp[r].error.kind \in {"NoResults", "EmptyQuery"}

\* a request whose query had succeeded, and whose DROP the engine rejected
DropFailedAfterSuccess ==
    \E r \in Reqs :
        /\ Served(r)
        /\ QueryAccepted(stmts[r])
        /\ DropFailed(stmts[r])
        /\ resp[r].rows # <<>>

(***************************************************************************)
(* C15: the user's rewritten query is sent to the engine only after every  *)
(* referenced label has been resolved and its CREATE accepted, in scan     *)
(* order; nothing but DROPs follows it; and once a resolution or a CREATE  *)
(* has failed, the query is never sent.                                    *)
(***************************************************************************)
QueryAfterMaterialization ==
    \A r \in Reqs :
        LET log == stmts[r]
            labels == LabelsOf(sql[r]) IN
        endpoint[r] = "refs" =>
            /\ \A k \in 1..Len(log) :
                   log[k].op = "query" =>
                       /\ k = Len(labels) + 1
                       /\ \A j \in 1..(k - 1) :
                              /\ log[j].op = "create"
                              /\ log[j].ok
                              /\ log[j].name = TempTableName(labels[j])
                              /\ ~HasNoResults(references[r], labels[j])
                       /\ \A j \in (k + 1)..Len(log) : log[j].op = "drop"
            /\ (pc[r] = "executing") =>
                   /\ pending[r].text = Trim(ModifiedSQL(sql[r]))
                   /\ Len(log) = Len(labels)
            /\ (\E k \in 1..Len(log) : log[k].op = "create" /\ ~log[k].ok)
                   => NamesOf(log, "query") = <<>>

\* a query that ran after the relations of its two labels had been created
QueryRanOnTwoRelations ==
    \E r \in Reqs :
        /\ Served(r)
        /\ sql[r] = QueryTwo
        /\ QueryAccepted(stmts[r])
        /\ Len(NamesOk(stmts[r], "create")) = 2

(***************************************************************************)
(* C18: no step drops a relation whose creator is still in flight and has  *)
(* not yet had its query executed.                                         *)
(***************************************************************************)
\* request r has created relations and its query has not been answered yet
StillUsing(r) == r \in Reqs /\ pc[r] \in {"creating", "executing"}

NoForeignDrop ==
    [][\A n \in DOMAIN catalog :
          StillUsing(catalog[n].owner) => n \in DOMAIN catalog']_vars

(***************************************************************************)
(* C19: the statements of one request form a critical section on the       *)
(* shared session: the engine executes no statement of another request     *)
(* between a request's first CREATE and its last DROP.                     *)
(***************************************************************************)
\* request r has had a CREATE executed and has not finished its cleanup
InSection(r) == InFlight(r) /\ NamesOf(stmts[r], "create") # <<>>

CriticalSection ==
    [][\A q, r \in Reqs :
          (q # r /\ stmts'[q] # stmts[q]) => ~InSection(r)]_vars

(***************************************************************************)
(* C20: the names a request issues a DROP for are exactly the names whose  *)
(* CREATE the engine accepted in that request, in the order of creation.   *)
(***************************************************************************)
DropsOnlyCreated ==
    \A r \in Reqs :
        Served(r) => NamesOf(stmts[r], "drop") = NamesOk(stmts[r], "create")

(***************************************************************************)
(* C13: when the engine rejects the rewritten query, the request fails and *)
(* the error in the server's response, and then the message executeQuery   *)
(* shows on its node, is the engine's error unmodified.                    *)
(***************************************************************************)
\* the engine's answers to the rejected queries of the log
QueryErrors(log) ==
    LET Bad(e) == e.op = "query" /\ ~e.ok IN SelectSeq(log, Bad)

EngineErrorVerbatim ==
    \A r \in Reqs :
        (Served(r) /\ QueryErrors(stmts[r]) # <<>>) =>
            /\ resp[r].data = "null"
            /\ resp[r].error = QueryErrors(stmts[r])[1].err
            /\ (cpc[r] = "settled" => shown[r] = QueryErrors(stmts[r])[1].err)

\* a node shows the error the engine gave for its rewritten query
EngineErrorShown ==
    \E r \in Reqs :
        /\ Served(r)
        /\ origin[r] = "client"
        /\ cpc[r] = "settled"
        /\ QueryErrors(stmts[r]) # <<>>
        /\ shown[r] # NoError

(***************************************************************************)
(* C16: once results have been recorded for the SQL node labelled L (or a  *)
(* node's label has been changed to L), a call getNodeByLabel(L) finds a   *)
(* node and returns those results.                                         *)
(***************************************************************************)
LookupIsCurrent ==
    \A l \in DOMAIN lastRecorded :
        /\ GetNodeByLabel(nodesRef, l).found
        /\ GetNodeByLabel(nodesRef, l).results = lastRecorded[l].results

\* the same, in the states where the effect has brought the ref up to date
LookupIsCurrentWhenSynced == nodesRef = nodes => LookupIsCurrent

(***************************************************************************)
(* C17: a request whose query outlasted the request-level timeout answers  *)
(* with the timeout error.                                                 *)
(***************************************************************************)
TimeoutReported ==
    \A r \in Reqs :
        (Served(r) /\ overdue[r]) => resp[r].error = Err("Timeout", <<>>)

(***************************************************************************)
(* C21: rewriting replaces each scanned occurrence (repeats and white-     *)
(* space variants included) once, at its own place, by the relation name   *)
(* of its trimmed label, leaves the text outside the occurrences as it is, *)
(* and leaves no {label} token; the rewritten text is what is executed.    *)
(***************************************************************************)
\* t with the span of each of the matches 1..k replaced by names[k]
RECURSIVE SpliceFrom(_, _, _, _)
SpliceFrom(t, ms, names, k) ==
    IF k = 0 THEN t
    ELSE SpliceFrom(Slice(t, 1, ms[k].at - 1) \o names[k]
                        \o Slice(t, ms[k].at + Len(ms[k].raw), Len(t)),
                    ms, names, k - 1)

\* the relation names of the trimmed labels of the matches
NamesFor(ms) == [k \in 1..Len(ms) |-> TempPrefix \o Sanitize(Trim(ms[k].cap))]

\* request r was handled by the loop of the with-references endpoint
Scanned(r) == endpoint[r] = "refs" /\ pc[r] # "idle" /\ resp[r].status # 400

RewriteExact ==
    \A r \in Reqs :
        LET ms == MatchAll(sql[r])
            spliced == SpliceFrom(sql[r], ms, NamesFor(ms), Len(ms)) IN
        Scanned(r) =>
            /\ ModifiedSQL(sql[r]) = spliced
            /\ MatchAll(ModifiedSQL(sql[r])) = <<>>
            /\ pc[r] = "executing" => pending[r].text = Trim(spliced)

\* a text with two references has been rewritten and sent to the engine
TwoReferencesRewritten ==
    \E r \in Reqs :
        /\ pc[r] = "executing"
        /\ Len(MatchAll(sql[r])) = 2
        /\ pending[r].text # sql[r]

(***************************************************************************)
(* C22: scanning yields, left to right and without overlap, one reference  *)
(* per occurrence of "{", one or more characters other than "}", "}"; the  *)
(* label is the capture without its leading and trailing white space; {}   *)
(* yields no reference and a text without the pattern yields none.         *)
(***************************************************************************)
\* t[p..q] is an occurrence of the pattern
IsOccurrence(t, p, q) ==
    /\ t[p] = "{"
    /\ q > p + 1
    /\ t[q] = "}"
    /\ \A j \in (p + 1)..(q - 1) : t[j] # "}"

MatchEnd(m) == m.at + Len(m.raw) - 1

\* l is cap without its leading and trailing white space
IsTrimmed(l, cap) ==
    /\ \E a \in 1..(Len(cap) + 1) :
           /\ Len(l) <= Len(cap) - a + 1
           /\ l = Slice(cap, a, a + Len(l) - 1)
           /\ \A j \in 1..(a - 1) : cap[j] \in WhiteSpace
           /\ \A j \in (a + Len(l))..Len(cap) : cap[j] \in WhiteSpace
    /\ l # <<>> => l[1] \notin WhiteSpace /\ l[Len(l)] \notin WhiteSpace

ScanExact ==
    \A r \in Reqs :
        LET t == sql[r]
            ms == MatchAll(t) IN
        Scanned(r) =>
            /\ \A k \in 1..Len(ms) :
                   /\ ms[k].at \in 1..Len(t)
                   /\ MatchEnd(ms[k]) \in 1..Len(t)
                   /\ IsOccurrence(t, ms[k].at, MatchEnd(ms[k]))
                   /\ ms[k].raw = Slice(t, ms[k].at, MatchEnd(ms[k]))
                   /\ ms[k].cap = Slice(t, ms[k].at + 1, MatchEnd(ms[k]) - 1)
                   /\ IsTrimmed(LabelsOf(t)[k], ms[k].cap)
            /\ \A k \in 1..(Len(ms) - 1) : MatchEnd(ms[k]) < ms[k + 1].at
            /\ \A p, q \in 1..Len(t) :
                   IsOccurrence(t, p, q) =>
                       \E k \in 1..Len(ms) :
                           ms[k].at <= p /\ q <= MatchEnd(ms[k])
            /\ \A k \in 1..Len(tempTables[r]) :
                   tempTables[r][k] = TempTableName(LabelsOf(t)[k])

\* a text with empty braces and one reference whose capture had blanks
EmptyBracesSkipped ==
    \E r \in Reqs :
        /\ Scanned(r)
        /\ IndexOf(sql[r], <<"{", "}">>) > 0
        /\ Len(MatchAll(sql[r])) = 1
        /\ IndexOf(sql[r], <<"{", "}">>) + 1 < MatchAll(sql[r])[1].at
        /\ LabelsOf(sql[r])[1] # MatchAll(sql[r])[1].cap
        /\ Len(tempTables[r]) = 1

(***************************************************************************)
(* C25: the relation name of a label is the fixed prefix followed by the   *)
(* label with every character outside [A-Za-z0-9_] replaced by "_"; it     *)
(* holds characters of [A-Za-z0-9_] only; and the name of the CREATE is    *)
(* the name put into the query for that label.                             *)
(***************************************************************************)
\* n is the prefix followed by l, character by character, "_" for others
IsNameOf(n, l) ==
    /\ Len(n) = Len(TempPrefix) + Len(l)
    /\ \A k \in 1..Len(TempPrefix) : n[k] = TempPrefix[k]
    /\ \A k \in 1..Len(l) :
           n[Len(TempPrefix) + k] = (IF l[k] \in WordChars THEN l[k] ELSE "_")

NameIsSanitizedLabel ==
    \A r \in Reqs :
        LET ms == MatchAll(sql[r]) IN
        Scanned(r) =>
            /\ \A k \in 1..Len(tempTables[r]) :
                   /\ IsNameOf(tempTables[r][k], Trim(ms[k].cap))
                   /\ \A j \in 1..Len(tempTables[r][k]) :
                          tempTables[r][k][j] \in WordChars
            /\ NamesOf(stmts[r], "create")
                   = SubSeq(tempTables[r], 1, Len(NamesOf(stmts[r], "create")))
            /\ pc[r] = "executing" =>
                   pending[r].text
                       = Trim(SpliceFrom(sql[r], ms, NamesOk(stmts[r], "create"),
                                         Len(ms)))

\* a label with a character outside the class was created and substituted
SanitizedNameUsed ==
    \E r \in Reqs :
        /\ pc[r] = "executing"
        /\ Len(tempTables[r]) = 1
        /\ tempTables[r][1] # TempPrefix \o LabelsOf(sql[r])[1]

(***************************************************************************)
(* C23: in the VALUES list of a CREATE a number is emitted unquoted, a     *)
(* null or absent value as NULL, and every other value (string, boolean)   *)
(* as a quoted literal with each embedded quote doubled, which ends at its *)
(* own closing quote.                                                      *)
(***************************************************************************)
\* the result set the CREATE pending for request r is built from
Materializing(r) == references[r][LabelsOf(sql[r])[idx[r]]].rows

QuotesIn(s) == Cardinality({k \in 1..Len(s) : s[k] = "'"})

CellsSerialized ==
    \A r \in Reqs :
        pc[r] = "creating" =>
            LET results == Materializing(r)
                columns == Keys(results[1]) IN
            \A k \in 1..Len(results) : \A c \in 1..Len(columns) :
                LET val == Get(results[k], columns[c])
                    lit == pending[r].rows[k][c] IN
                IF val.t = "num" THEN lit.k = "num" /\ lit.n = val.n
                ELSE IF val.t \in {"null", "undef"} THEN lit.k = "null"
                ELSE /\ lit.k = "quoted"
                     /\ Len(lit.text) = Len(StringOf(val)) + QuotesIn(StringOf(val)) + 2
                     /\ lit.text[1] = "'"
                     /\ lit.text[Len(lit.text)] = "'"
                     /\ ReadQuoted(lit.text, 2).ok
                     /\ ReadQuoted(lit.text, 2).s = StringOf(val)

\* a CREATE is pending whose cell is a string with a quote in it
QuotedCellSerialized ==
    \E r \in Reqs :
        /\ pc[r] = "creating"
        /\ Len(Materializing(r)) = 1
        /\ Len(Materializing(r)[1]) = 1
        /\ Materializing(r)[1][1][2].t = "str"
        /\ QuotesIn(Materializing(r)[1][1][2].s) > 0

(***************************************************************************)
(* C24: the columns of a CREATE are the keys of the first row in order;    *)
(* every row yields one tuple with one value per such key, NULL where the  *)
(* row lacks the key; keys the first row lacks are dropped.                *)
(***************************************************************************)
HasKey(row, key) == \E j \in 1..Len(row) : row[j][1] = key

SchemaFromFirstRow ==
    \A r \in Reqs :
        pc[r] = "creating" =>
            LET results == Materializing(r)
                first == results[1] IN
            /\ Len(pending[r].cols) = Len(first)
            /\ \A c \in 1..Len(first) : pending[r].cols[c] = first[c][1]
            /\ Len(pending[r].rows) = Len(results)
            /\ \A k \in 1..Len(results) :
                   /\ Len(pending[r].rows[k]) = Len(first)
                   /\ \A c \in 1..Len(first) :
                          IF HasKey(results[k], first[c][1])
                          THEN pending[r].rows[k][c]
                                   = SqlLiteral(Get(results[k], first[c][1]))
                          ELSE pending[r].rows[k][c].k = "null"

\* a CREATE is pending whose second row lacks a key of the first row and
\* has a key the first row lacks
RaggedRowsSerialized ==
    \E r \in Reqs :
        /\ pc[r] = "creating"
        /\ Len(Materializing(r)) = 2
        /\ \E c \in 1..Len(Materializing(r)[1]) :
               ~HasKey(Materializing(r)[2], Materializing(r)[1][c][1])
        /\ \E c \in 1..Len(Materializing(r)[2]) :
               ~HasKey(Materializing(r)[1], Materializing(r)[2][c][1])

(***************************************************************************)
(* C26: however server start and incoming requests interleave, the         *)
(* database is opened at most once, connected at most once, the sample     *)
(* tables are created at most once, and no request issues a statement on a *)
(* connection that is still null.                                          *)
(***************************************************************************)
OpenedOnce == opened <= 1

ConnectedOnce == connected <= 1

CreatedOnce == creates <= 1

NoNullUse == nullUse = {}

InitializedOnce == OpenedOnce /\ ConnectedOnce /\ CreatedOnce /\ NoNullUse

(***************************************************************************)
(* C27: when executeQuery of a node fails, the node's results in the       *)
(* canvas state become null, and a later request that references the       *)
(* node's label fails with the empty-result error; isExecuting is false    *)
(* whenever executeQuery finishes.                                         *)
(***************************************************************************)
\* executeQuery of request r finishes in this step
Finishes(r) == cpc[r] # "settled" /\ cpc'[r] = "settled"

\* the run of request q has failed and has left its node without results
FailedRun(q) ==
    /\ cpc[q] = "settled"
    /\ shown[q] # NoError
    /\ NodeWithId(nodes, nodeOf[q]).results.isNull

\* executeQuery is called for request r with a text that references first
\* the label of the node of request q
ReferencesNodeOf(r, q) ==
    /\ pc[r] = "idle"
    /\ origin'[r] = "client"
    /\ LabelsOf(Trim(sql'[r])) # <<>>
    /\ LabelsOf(Trim(sql'[r]))[1] = NodeWithId(nodes, nodeOf[q]).label

FailureRecorded ==
    \A r \in Reqs :
        Finishes(r) =>
            /\ ~isExecuting'[nodeOf'[r]]
            /\ shown'[r] # NoError
                   => NodeWithId(nodes', nodeOf'[r]).results.isNull

FailureSeenLater ==
    \A r \in Reqs : \A q \in Reqs \ {r} :
        (FailedRun(q) /\ ReferencesNodeOf(r, q)) =>
            clientErr'[r] = Err("NoResults", NodeWithId(nodes, nodeOf[q]).label)

FailureClearsResults == [][FailureRecorded /\ FailureSeenLater]_vars

\* the part that holds: what a finished run leaves in the canvas state
FailureRecordedAlways == [][FailureRecorded]_vars

\* the later request, when the ref is up to date and the label is unique
FailureSeenWhenSynced ==
    [][\A r \in Reqs : \A q \in Reqs \ {r} :
          (/\ FailedRun(q)
           /\ ReferencesNodeOf(r, q)
           /\ nodesRef = nodes
           /\ \A id \in SqlNodeIds(nodes) \ {nodeOf[q]} :
                  NodeWithId(nodes, id).label # NodeWithId(nodes, nodeOf[q]).label)
          => clientErr'[r] = Err("NoResults", NodeWithId(nodes, nodeOf[q]).label)]_vars

(***************************************************************************)
(* C28: for every request sent by executeSQLWithReferences the labels the  *)
(* server looks up are the keys the client put into the references, each   *)
(* with a non-empty result set, and the server never answers such a        *)
(* request with its own 'has no results' error.                            *)
(***************************************************************************)
\* request r was sent by executeSQLWithReferences
SentByResolver(r) ==
    origin[r] = "client" /\ endpoint[r] = "refs" /\ pc[r] # "idle"

ResolverAgrees ==
    \A r \in Reqs :
        SentByResolver(r) =>
            /\ Range(LabelsOf(sql[r])) = DOMAIN references[r]
            /\ \A l \in DOMAIN references[r] :
                   ~references[r][l].isNull /\ Len(references[r][l].rows) > 0
            /\ Done(r) => resp[r].error.kind # "NoResults"

\* the same for the requests whose text does not reference __proto__
ResolverAgreesOnOtherLabels ==
    \A r \in Reqs :
        (SentByResolver(r) /\ Proto \notin Range(LabelsOf(sql[r]))) =>
            /\ Range(LabelsOf(sql[r])) = DOMAIN references[r]
            /\ \A l \in DOMAIN references[r] :
                   ~references[r][l].isNull /\ Len(references[r][l].rows) > 0
            /\ Done(r) => resp[r].error.kind # "NoResults"

(***************************************************************************)
(* C29: executeQuery resolves the references of its text against the       *)
(* cached results only: the step starts no other request, changes no other *)
(* node, and either sends the cached rows or fails without sending; so a   *)
(* node that references its own label, or two nodes that reference each    *)
(* other, take one request each.                                           *)
(***************************************************************************)
\* executeQuery is called for request r in this step
Executes(r) == pc[r] = "idle" /\ pc'[r] # "idle" /\ origin'[r] = "client"

ResolvesFromCache ==
    \A r \in Reqs :
        Executes(r) =>
            /\ \A q \in Reqs \ {r} :
                   pc'[q] = pc[q] /\ cpc'[q] = cpc[q] /\ nodeOf'[q] = nodeOf[q]
            /\ \A id \in SqlNodeIds(nodes) \ {nodeOf'[r]} :
                   NodeWithId(nodes', id) = NodeWithId(nodes, id)
            /\ IF clientErr'[r] = NoError
               THEN /\ cpc'[r] = "waiting"
                    /\ \A l \in DOMAIN references'[r] :
                           references'[r][l] = GetNodeByLabel(nodesRef, l).results
               ELSE /\ cpc'[r] = "settled"
                    /\ pc'[r] = "done"
                    /\ clientErr'[r].kind \in {"EmptyQuery", "NotFound", "NoResults"}

NoTriggeredExecution == [][ResolvesFromCache]_vars

\* node 1 has run a text that references its own label, with its cached
\* rows, while node 2 has run a text that references node 1, and no request
\* but these two was made
SelfAndCrossReferenceServed ==
    /\ \A r \in Reqs : cpc[r] = "settled" /\ endpoint[r] = "refs"
    /\ \E r \in Reqs :
           /\ nodeOf[r] = 1
           /\ NodeWithId(seen[r], 1).label \in DOMAIN references[r]
           /\ shown[r] = NoError
    /\ \E r \in Reqs :
           /\ nodeOf[r] = 2
           /\ NodeWithId(seen[r], 1).label \in Range(LabelsOf(sql[r]))

(***************************************************************************)
(* C30: if every engine call returns in the end, every request to the      *)
(* with-references endpoint is answered in the end, once: a response is    *)
(* sent only when the handler is done, and never replaced.                 *)
(***************************************************************************)
\* the with-references endpoint has received request r
Received(r) == endpoint[r] = "refs" /\ pc[r] # "idle"

AnsweredOnce ==
    \A r \in Reqs :
        /\ (resp[r] # NoResponse /\ endpoint[r] = "refs") => resp'[r] = resp[r]
        /\ (resp'[r] # NoResponse /\ endpoint'[r] = "refs") => pc'[r] = "done"

EveryRequestAnswered ==
    /\ \A r \in Reqs : Received(r) ~> (Done(r) /\ resp[r] # NoResponse)
    /\ [][AnsweredOnce]_vars

\* a request whose statement was rejected has been answered while the other
\* request was in flight
AnsweredAfterFailure ==
    \E r \in Reqs :
        /\ Served(r)
        /\ ~alone[r]
        /\ \E k \in 1..Len(stmts[r]) : ~stmts[r][k].ok
        /\ resp[r].error # NoError
        /\ \E q \in Reqs \ {r} : InFlight(q)

(***************************************************************************)
(* C31: labels need not be unique; getNodeByLabel returns the first node   *)
(* of type sqlNode with the label in canvas order, never a note or a       *)
(* rectangle, and nothing when no SQL node carries the label.              *)
(***************************************************************************)
\* Array.prototype.find from position k on: the position of the first SQL
\* node with the label, or 0
RECURSIVE FindFrom(_, _, _)
FindFrom(ns, label, k) ==
    IF k > Len(ns) THEN 0
    ELSE IF ns[k].type = "sqlNode" /\ ns[k].label = label THEN k
    ELSE FindFrom(ns, label, k + 1)

\* the labels on the canvas, and one that no node carries
LookupLabels == {nodesRef[k].label : k \in 1..Len(nodesRef)} \cup {Proto}

FirstSqlNodeReturned ==
    \A l \in LookupLabels :
        LET k == FindFrom(nodesRef, l, 1)
            got == GetNodeByLabel(nodesRef, l) IN
        /\ got.found <=> k > 0
        /\ got.found =>
               /\ nodesRef[k].type = "sqlNode"
               /\ got.results = nodesRef[k].results
               /\ \A i \in 1..(k - 1) :
                      ~(nodesRef[i].type = "sqlNode" /\ nodesRef[i].label = l)

\* two SQL nodes with different results and a note carry one label, and
\* the lookup returns the results of the first SQL node
DuplicateLabelLookup ==
    \E i \in 1..Len(nodesRef) : \E j \in (i + 1)..Len(nodesRef) :
        \E n \in 1..Len(nodesRef) :
            /\ nodesRef[i].type = "sqlNode"
            /\ nodesRef[j].type = "sqlNode"
            /\ nodesRef[n].type = "noteNode"
            /\ nodesRef[i].label = nodesRef[j].label
            /\ nodesRef[n].label = nodesRef[i].label
            /\ nodesRef[i].results # nodesRef[j].results
            /\ GetNodeByLabel(nodesRef, nodesRef[i].label).results
                   = nodesRef[i].results

(***************************************************************************)
(* C34: after any sequence of add, delete, clear, save and load of a saved *)
(* canvas, the ids of the nodes are pairwise distinct and smaller than the *)
(* nodeId counter, so a result update addressed by the id of a node        *)
(* changes that node and no other.                                         *)
(***************************************************************************)
\* the positions of the canvas that updateNodeResults(id, ...) changes
Reached(ns, id) ==
    {k \in 1..Len(ns) :
        UpdateNodeResults(ns, id, Referenced(FALSE, SalesRows))[k] # ns[k]}

IdsDistinctBelowCounter ==
    /\ \A i \in 1..Len(nodes) : \A j \in 1..Len(nodes) :
           i # j => nodes[i].id # nodes[j].id
    /\ \A k \in 1..Len(nodes) : nodes[k].id < nodeId
    /\ \A k \in 1..Len(nodes) : Reached(nodes, nodes[k].id) = {k}

\* a canvas with a gap in its ids was saved with the counter at its bound,
\* and the canvas of now was built after a clear
SavedThenCleared ==
    \E f \in saved :
        /\ f.nodeId = MaxNodeId
        /\ Len(f.nodes) >= 2
        /\ \E id \in 1..(MaxNodeId - 1) :
               /\ \A k \in 1..Len(f.nodes) : f.nodes[k].id # id
               /\ \E k \in 1..Len(f.nodes) : f.nodes[k].id > id
        /\ nodeId < f.nodeId
        /\ Len(nodes) >= 2
        /\ \A k \in 1..Len(nodes) : nodes[k].id # 1

(***************************************************************************)
(* C32: a saved canvas state holds no results; loadCanvas restores every   *)
(* node with results null and with its id, type and label as saved; and a  *)
(* reference to a label of the restored canvas fails with the empty-result *)
(* error until the referenced node has results again.                      *)
(***************************************************************************)
\* loadCanvas runs in this step: the canvas changes and no executeQuery
\* moves
Loads == nodes' # nodes /\ cpc' = cpc

RestoredWithoutResults ==
    /\ \A f \in saved' : \A k \in 1..Len(f.nodes) :
           DOMAIN f.nodes[k] = {"id", "type", "label"}
    /\ Loads =>
           /\ \A k \in 1..Len(nodes') : nodes'[k].results.isNull
           /\ CanvasState(nodes', nodeId') \in saved

\* the canvas is as loadCanvas left it
AsRestored ==
    /\ CanvasState(nodes, nodeId) \in saved
    /\ \A k \in 1..Len(nodes) : nodes[k].results.isNull

ReferenceFailsAfterLoad ==
    \A r \in Reqs :
        (/\ AsRestored
         /\ Executes(r)
         /\ LabelsOf(Trim(sql'[r])) # <<>>
         /\ GetNodeByLabel(nodes, LabelsOf(Trim(sql'[r]))[1]).found)
        => clientErr'[r] = Err("NoResults", LabelsOf(Trim(sql'[r]))[1])

LoadDropsResults == [][RestoredWithoutResults /\ ReferenceFailsAfterLoad]_vars

\* the part that holds: what save and load do to the canvas state
LoadRestoresWithoutResults == [][RestoredWithoutResults]_vars

\* the reference after a load, when the ref is up to date
ReferenceFailsWhenSynced ==
    [][nodesRef = nodes => ReferenceFailsAfterLoad]_vars

(***************************************************************************)
(* C33: an empty or whitespace-only SQL text is never handed to the engine *)
(* and creates no relation: the client throws 'Empty query' and sends      *)
(* nothing, both endpoints answer an empty sql with status 400 and 'SQL    *)
(* query is required', and a whitespace-only sql that reaches an endpoint  *)
(* is answered with the error 'Empty query'.                               *)
(***************************************************************************)
\* request r was made with an empty or whitespace-only text
BlankText(r) == pc[r] # "idle" /\ Trim(sql[r]) = <<>>

NeverAtEngine(r) ==
    /\ pc[r] = "done"
    /\ stmts[r] = <<>>
    /\ tempTables[r] = <<>>
    /\ after[r] = before[r]

BlankTextRejected ==
    \A r \in Reqs :
        BlankText(r) =>
            /\ NeverAtEngine(r)
            /\ origin[r] = "client" =>
                   /\ clientErr[r] = Err("EmptyQuery", <<>>)
                   /\ endpoint[r] = "none"
                   /\ resp[r].status = 0
            /\ (origin[r] = "direct" /\ sql[r] = <<>>) =>
                   /\ resp[r].status = 400
                   /\ resp[r].error = Err("Required", <<>>)
            /\ (origin[r] = "direct" /\ sql[r] # <<>>) =>
                   /\ resp[r].status = 200
                   /\ resp[r].error = Err("EmptyQuery", <<>>)

\* a node threw on a whitespace-only text, and an endpoint answered one
BlankAtClientAndServer ==
    /\ \E r \in Reqs :
           BlankText(r) /\ origin[r] = "client" /\ sql[r] # <<>>
    /\ \E r \in Reqs :
           BlankText(r) /\ origin[r] = "direct" /\ sql[r] # <<>>
              /\ endpoint[r] = "refs"

====
